---- MODULE Spec2Model ----
(***************************************************************************)
(* Model of the coupon service: six request handlers (create, list,        *)
(* update, delete, validate, apply) over a document store.  Every handler  *)
(* is a sequence of steps, one per store call it awaits; requests of       *)
(* different callers interleave between those steps.                       *)
(***************************************************************************)
EXTENDS Integers, Sequences, FiniteSets, TLC

VARIABLES
    coupons,   \* the "coupons" collection: document id -> coupon data
    version,   \* the store's update stamp of each coupon document
    nextId,    \* how many document ids the store has generated
    pc,        \* per request slot: the step its handler is at
    req,       \* per request slot: parsed.data of request.data
    fn,        \* per request slot: the function called
    loc,       \* per request slot: the handler's local variables
    resp,      \* per request slot: the FunctionResponse returned
    now,       \* the clock read by new Date()
    nreq,      \* requests started so far
    used0      \* history: per coupon id, the usedCount it was inserted with

vars == <<coupons, version, nextId, pc, req, fn, loc, resp, now, nreq, used0>>

----------------------------------------------------------------------------
(* Bounds of the model *)

\* requests started in one behaviour of Spec and of the specifications
\* derived from it
MaxRequests == 2
\* applyCoupon requests started in one behaviour of SpecApply
MaxApplies == 3
\* requests started in one behaviour of SpecSeq
MaxSeqRequests == 4
\* requests started in one behaviour of SpecUse
MaxUseRequests == 3
\* updateCoupon requests started in one behaviour of SpecUpdate
MaxUpdates == 2
\* applyCoupon requests started in one behaviour of SpecLive
MaxLiveApplies == 6
\* requests being handled at the same time
MaxInFlight == 2
\* the last instant of the clock
MaxNow == 2

\* request slots: enough for every request of a behaviour
Procs ==
    1 .. (IF MaxRequests >= MaxSeqRequests /\ MaxRequests >= MaxApplies THEN MaxRequests
          ELSE IF MaxSeqRequests >= MaxApplies THEN MaxSeqRequests
          ELSE MaxApplies)

----------------------------------------------------------------------------
(* Values *)

\* null, as stored for an absent minPurchase / maxUses
Null == -1

DISCOUNT_TYPES == {"percentage", "fixed"}

\* sites/{siteId} documents: site id -> userId (read-only for the handlers)
Sites == [s1 |-> "u1", s2 |-> "u2"]

\* ids the store generates for added documents, in generation order
DocIds == <<"c1", "c2", "c3", "c4", "c5", "c6", "c7", "c8">>

\* String.prototype.toUpperCase on the codes used
toUpperCase(s) ==
    CASE s = "a" -> "A"
      [] s = "b" -> "B"
      [] s = "c" -> "C"
      [] s = "d" -> "D"
      [] OTHER -> s

Has(r, k) == k \in DOMAIN r

\* updates.k ?? dflt, for a key the schema never lets be null
Coalesce(r, k, dflt) == IF Has(r, k) THEN r[k] ELSE dflt

\* a number is modelled by the count of its halves: 1 is one half, Num(n)
\* the whole number n
Unit == 2
Num(n) == n * Unit

Min(a, b) == IF a < b THEN a ELSE b
Max(a, b) == IF a > b THEN a ELSE b

\* Math.floor of the non-negative rational n / d
Floor(n, d) == n \div d

\* Math.round of the non-negative rational n / d: the nearest whole number,
\* a half going up
Round(n, d) == (2 * n + d) \div (2 * d)

----------------------------------------------------------------------------
(* FunctionResponse *)

NoData == [null |-> TRUE]
NoError == "null"

\* the error codes of the taxonomy
ErrorCode ==
    {"INVALID_INPUT", "SITE_NOT_FOUND", "COUPON_NOT_FOUND", "FORBIDDEN", "DUPLICATE_CODE",
     "COUPON_LIMIT_REACHED", "COUPON_INACTIVE", "COUPON_EXPIRED", "COUPON_NOT_YET_VALID",
     "COUPON_MAX_USES", "MIN_PURCHASE_NOT_MET", "INTERNAL_ERROR"}

\* an error response that leaves out the optional errorCode
ErrWithoutCode(code) == [data |-> NoData, error |-> code]

\* an error response: the message is modelled by the code it goes with
Err(code) == [data |-> NoData, error |-> code, errorCode |-> code]
Ok(d) == [data |-> d, error |-> NoError]

IsOk(r) == r.error = NoError
ErrorCodeOf(r) == IF Has(r, "errorCode") THEN r.errorCode ELSE "none"

NoResp == [none |-> TRUE]
NoLoc == [none |-> TRUE]
NoReq == [none |-> TRUE]

----------------------------------------------------------------------------
(* Schemas *)

NonEmpty(s) == s # ""

\* z.object: the keys of each schema
createCouponKeys ==
    {"siteId", "code", "discountType", "discountValue", "minPurchase", "maxUses",
     "validFrom", "validUntil"}
getCouponsKeys == {"siteId"}
\* an update schema that also declares the owner of the coupon
updateCouponKeysWithOwner ==
    {"siteId", "couponId", "code", "discountType", "discountValue", "minPurchase",
     "maxUses", "validFrom", "validUntil", "isActive", "userId"}
updateCouponKeys ==
    {"siteId", "couponId", "code", "discountType", "discountValue", "minPurchase",
     "maxUses", "validFrom", "validUntil", "isActive"}
deleteCouponKeys == {"siteId", "couponId"}
validateCouponKeys == {"siteId", "code", "cartTotal"}
applyCouponKeys == {"siteId", "couponId", "orderId", "cartTotal"}

\* parsed.data keeps every key the request was sent with
KeepAllKeys(d, keys) == d

\* parsed.data: z.object drops the keys of the request that the schema
\* does not declare
ParsedData(d, keys) == [k \in DOMAIN d \cap keys |-> d[k]]

\* isoDateString: a date string is modelled by the instant it parses to;
\* an unparsable string parses to NaN
NaN == -2
isoDateString(d) == d # NaN

createCouponSchema(d) ==
    /\ NonEmpty(d.siteId)
    /\ NonEmpty(d.code)
    /\ d.discountType \in DISCOUNT_TYPES
    /\ d.discountValue > 0
    /\ (Has(d, "minPurchase") => d.minPurchase > 0)
    /\ (Has(d, "maxUses") => d.maxUses > 0)
    /\ isoDateString(d.validFrom)
    /\ isoDateString(d.validUntil)
    /\ (d.discountType # "percentage" \/ d.discountValue <= Num(100))
    /\ d.validFrom < d.validUntil

getCouponsSchema(d) == NonEmpty(d.siteId)

\* an update schema that takes a discountValue sent without its type for a
\* percentage
updateCouponSchemaValueAlone(d) ==
    /\ NonEmpty(d.siteId)
    /\ NonEmpty(d.couponId)
    /\ (Has(d, "code") => NonEmpty(d.code))
    /\ (Has(d, "discountType") => d.discountType \in DISCOUNT_TYPES)
    /\ (Has(d, "discountValue") => d.discountValue > 0)
    /\ (Has(d, "minPurchase") => (d.minPurchase = Null \/ d.minPurchase > 0))
    /\ (Has(d, "maxUses") => (d.maxUses = Null \/ d.maxUses > 0))
    /\ (Has(d, "validFrom") => isoDateString(d.validFrom))
    /\ (Has(d, "validUntil") => isoDateString(d.validUntil))
    /\ \/ (Has(d, "discountType") /\ d.discountType # "percentage")
       \/ ~Has(d, "discountValue")
       \/ d.discountValue <= Num(100)
    /\ ((Has(d, "validFrom") /\ Has(d, "validUntil")) => d.validFrom < d.validUntil)

updateCouponSchema(d) ==
    /\ NonEmpty(d.siteId)
    /\ NonEmpty(d.couponId)
    /\ (Has(d, "code") => NonEmpty(d.code))
    /\ (Has(d, "discountType") => d.discountType \in DISCOUNT_TYPES)
    /\ (Has(d, "discountValue") => d.discountValue > 0)
    /\ (Has(d, "minPurchase") => (d.minPurchase = Null \/ d.minPurchase > 0))
    /\ (Has(d, "maxUses") => (d.maxUses = Null \/ d.maxUses > 0))
    /\ (Has(d, "validFrom") => isoDateString(d.validFrom))
    /\ (Has(d, "validUntil") => isoDateString(d.validUntil))
    /\ \/ ~Has(d, "discountType")
       \/ d.discountType # "percentage"
       \/ ~Has(d, "discountValue")
       \/ d.discountValue <= Num(100)
    /\ ((Has(d, "validFrom") /\ Has(d, "validUntil")) => d.validFrom < d.validUntil)

deleteCouponSchema(d) == NonEmpty(d.siteId) /\ NonEmpty(d.couponId)

validateCouponSchema(d) ==
    NonEmpty(d.siteId) /\ NonEmpty(d.code) /\ d.cartTotal >= 0

applyCouponSchema(d) ==
    /\ NonEmpty(d.siteId)
    /\ NonEmpty(d.couponId)
    /\ NonEmpty(d.orderId)
    /\ d.cartTotal >= 0

----------------------------------------------------------------------------
(* Helpers *)

\* getSiteUserId: the site's userId, or null when the site does not exist
NoUser == "null"
getSiteUserId(siteId) == IF siteId \in DOMAIN Sites THEN Sites[siteId] ELSE NoUser

\* toCouponDocument: { id: doc.id, ...data }
toCouponDocument(id, data) == [k \in DOMAIN data \cup {"id"} |->
                                 IF k \in DOMAIN data THEN data[k] ELSE id]

\* the pairs <<discountValue, cartTotal>>, both below 102, whose product
\* cartTotal * (discountValue / 100) is exactly a whole number and a half but
\* comes out just below it in double arithmetic (29% of 50 is
\* 14.499999999999998): Math.round takes these down
BelowHalf ==
    {<<29, 200>>, <<57, 200>>, <<58, 100>>, <<70, 180>>, <<113, 200>>, <<114, 100>>,
     <<115, 200>>, <<116, 50>>, <<140, 90>>, <<140, 170>>, <<164, 150>>}

\* Math.round(cartTotal * (discountValue / 100)), or the smaller of the two
calculateDiscount(discountType, discountValue, cartTotal) ==
    IF discountType = "percentage"
    THEN LET nearest == Round(cartTotal * discountValue, 100 * Unit * Unit)
         IN  Num(IF <<discountValue, cartTotal>> \in BelowHalf
                 THEN nearest - 1
                 ELSE nearest)
    ELSE Min(discountValue, cartTotal)

\* x != null: the key is there and holds a value
NotNull(r, k) == Has(r, k) /\ r[k] # Null

\* the cap compared with > instead of >=
MaxUsesReachedOffByOne(coupon) ==
    NotNull(coupon, "maxUses") /\ coupon.usedCount > coupon.maxUses

MaxUsesReached(coupon) == NotNull(coupon, "maxUses") /\ coupon.usedCount >= coupon.maxUses

\* a window that closes at the instant validUntil itself
ExpiredAtValidUntil(coupon, t) == t >= coupon.validUntil

Expired(coupon, t) == t > coupon.validUntil

NotYetValid(coupon, t) == t < coupon.validFrom

\* a minimum that the cart has to exceed
MinPurchaseNotExceeded(coupon, cartTotal) ==
    NotNull(coupon, "minPurchase") /\ cartTotal <= coupon.minPurchase

MinPurchaseNotMet(coupon, cartTotal) ==
    NotNull(coupon, "minPurchase") /\ cartTotal < coupon.minPurchase

\* the checks with the use limit looked at before the dates
validateCouponEligibilityUsesFirst(coupon, cartTotal, t) ==
    IF ~coupon.isActive THEN "COUPON_INACTIVE"
    ELSE IF MaxUsesReached(coupon) THEN "COUPON_MAX_USES"
    ELSE IF NotYetValid(coupon, t) THEN "COUPON_NOT_YET_VALID"
    ELSE IF Expired(coupon, t) THEN "COUPON_EXPIRED"
    ELSE IF MinPurchaseNotMet(coupon, cartTotal) THEN "MIN_PURCHASE_NOT_MET"
    ELSE "none"

\* validateCouponEligibility: "none" when eligible, else the error code
validateCouponEligibility(coupon, cartTotal, t) ==
    IF ~coupon.isActive THEN "COUPON_INACTIVE"
    ELSE IF NotYetValid(coupon, t) THEN "COUPON_NOT_YET_VALID"
    ELSE IF Expired(coupon, t) THEN "COUPON_EXPIRED"
    ELSE IF MaxUsesReached(coupon) THEN "COUPON_MAX_USES"
    ELSE IF MinPurchaseNotMet(coupon, cartTotal) THEN "MIN_PURCHASE_NOT_MET"
    ELSE "none"

\* a validation that holds every discountValue to 100, whatever the type
validateUpdateFieldsAnyType(currentData, updates) ==
    LET finalDiscountValue == Coalesce(updates, "discountValue", currentData.discountValue)
        finalValidFrom == Coalesce(updates, "validFrom", currentData.validFrom)
        finalValidUntil == Coalesce(updates, "validUntil", currentData.validUntil)
    IN  IF finalDiscountValue > Num(100)
        THEN "INVALID_INPUT"
        ELSE IF finalValidFrom >= finalValidUntil THEN "INVALID_INPUT"
        ELSE "none"

\* a validation that compares only the values the request carries
validateUpdateFieldsOfRequest(currentData, updates) ==
    IF /\ Has(updates, "discountType") /\ Has(updates, "discountValue")
       /\ updates.discountType = "percentage" /\ updates.discountValue > Num(100)
    THEN "INVALID_INPUT"
    ELSE IF /\ Has(updates, "validFrom") /\ Has(updates, "validUntil")
            /\ updates.validFrom >= updates.validUntil
    THEN "INVALID_INPUT"
    ELSE "none"

\* the handler's cross-field validation of a partial update against the
\* stored document: "none" when valid, else the error code
validateUpdateFields(currentData, updates) ==
    LET finalDiscountType == Coalesce(updates, "discountType", currentData.discountType)
        finalDiscountValue == Coalesce(updates, "discountValue", currentData.discountValue)
        finalValidFrom == Coalesce(updates, "validFrom", currentData.validFrom)
        finalValidUntil == Coalesce(updates, "validUntil", currentData.validUntil)
    IN  IF finalDiscountType = "percentage" /\ finalDiscountValue > Num(100)
        THEN "INVALID_INPUT"
        ELSE IF finalValidFrom >= finalValidUntil THEN "INVALID_INPUT"
        ELSE "none"

\* an update set that leaves out the keys holding null
buildCleanUpdatesWithoutNull(updates, t) ==
    [k \in {x \in DOMAIN updates \ {"siteId", "couponId"} :
                x \in {"minPurchase", "maxUses"} => updates[x] # Null}
           \cup {"updatedAt"} |->
        IF k = "updatedAt" THEN t
        ELSE IF k = "code" THEN toUpperCase(updates.code)
        ELSE updates[k]]

\* an update set with the code as the request wrote it
buildCleanUpdatesRawCode(updates, t) ==
    [k \in (DOMAIN updates \ {"siteId", "couponId"}) \cup {"updatedAt"} |->
        IF k = "updatedAt" THEN t ELSE updates[k]]

\* the keys of the request that are written: everything but the two ids,
\* the code upper-cased, plus a fresh updatedAt
buildCleanUpdates(updates, t) ==
    [k \in (DOMAIN updates \ {"siteId", "couponId"}) \cup {"updatedAt"} |->
        IF k = "updatedAt" THEN t
        ELSE IF k = "code" THEN toUpperCase(updates.code)
        ELSE updates[k]]

\* DocumentReference.update: the given keys replace the stored ones
Merge(data, upd) ==
    [k \in DOMAIN data \cup DOMAIN upd |-> IF k \in DOMAIN upd THEN upd[k] ELSE data[k]]

\* a query by code alone, over the coupons of every site
couponByCodeAnySite(store, siteId, code) ==
    {id \in DOMAIN store : store[id].code = code}

\* where("siteId", "==", siteId).where("code", "==", code): matching ids
couponByCodeQuery(store, siteId, code) ==
    {id \in DOMAIN store : store[id].siteId = siteId /\ store[id].code = code}

\* a query that returns the whole collection
couponsOfEverySite(store, siteId) == DOMAIN store

\* where("siteId", "==", siteId): matching ids
couponsBySiteQuery(store, siteId) ==
    {id \in DOMAIN store : store[id].siteId = siteId}

----------------------------------------------------------------------------
(* Request slots *)

Idle(p) == pc[p] = "idle"
InFlight == {p \in Procs : pc[p] \notin {"idle", "done"}}

\* a request enters the lowest free slot (slots are interchangeable)
CanStart(p) ==
    /\ Idle(p)
    /\ \A q \in Procs : q < p => ~Idle(q)
    /\ Cardinality(InFlight) < MaxInFlight

\* a handler that goes on to its first await whatever safeParse found
BeginUnchecked(p, name, d, valid, first) ==
    /\ CanStart(p)
    /\ nreq' = nreq + 1
    /\ req' = [req EXCEPT ![p] = d]
    /\ fn' = [fn EXCEPT ![p] = name]
    /\ loc' = [loc EXCEPT ![p] = NoLoc]
    /\ pc' = [pc EXCEPT ![p] = first]
    /\ resp' = [resp EXCEPT ![p] = NoResp]
    /\ UNCHANGED <<coupons, version, nextId, now, used0>>

\* safeParse of request.data, then either INVALID_INPUT or the first await
Begin(p, name, d, valid, first) ==
    /\ CanStart(p)
    /\ nreq' = nreq + 1
    /\ req' = [req EXCEPT ![p] = d]
    /\ fn' = [fn EXCEPT ![p] = name]
    /\ loc' = [loc EXCEPT ![p] = NoLoc]
    /\ IF valid
       THEN /\ pc' = [pc EXCEPT ![p] = first]
            /\ resp' = [resp EXCEPT ![p] = NoResp]
       ELSE /\ pc' = [pc EXCEPT ![p] = "done"]
            /\ resp' = [resp EXCEPT ![p] = Err("INVALID_INPUT")]
    /\ UNCHANGED <<coupons, version, nextId, now, used0>>

\* return r to the caller
Finish(p, r) ==
    /\ pc' = [pc EXCEPT ![p] = "done"]
    /\ resp' = [resp EXCEPT ![p] = r]
    /\ loc' = [loc EXCEPT ![p] = NoLoc]

Goto(p, step) == pc' = [pc EXCEPT ![p] = step]

\* a handler that goes on whether or not the site exists
ResolveSiteUnchecked(p, at, next) ==
    /\ pc[p] = at
    /\ Goto(p, next)
    /\ UNCHANGED <<coupons, version, nextId, req, fn, loc, resp, now, nreq, used0>>

\* const userId = await getSiteUserId(siteId); if (!userId) return SITE_NOT_FOUND
ResolveSite(p, at, next) ==
    /\ pc[p] = at
    /\ IF getSiteUserId(req[p].siteId) = NoUser
       THEN Finish(p, Err("SITE_NOT_FOUND"))
       ELSE Goto(p, next) /\ UNCHANGED <<resp, loc>>
    /\ UNCHANGED <<coupons, version, nextId, req, fn, now, nreq, used0>>

\* the caller takes the response; the slot is free again
Return(p) ==
    /\ pc[p] = "done"
    /\ pc' = [pc EXCEPT ![p] = "idle"]
    /\ req' = [req EXCEPT ![p] = NoReq]
    /\ fn' = [fn EXCEPT ![p] = "none"]
    /\ resp' = [resp EXCEPT ![p] = NoResp]
    /\ UNCHANGED <<coupons, version, nextId, loc, now, nreq, used0>>

\* time passes between any two steps
Tick ==
    /\ now < MaxNow
    /\ now' = now + 1
    /\ UNCHANGED <<coupons, version, nextId, pc, req, fn, loc, resp, nreq, used0>>

----------------------------------------------------------------------------
(* applyCoupon *)

StartApply(p, d) ==
    Begin(p, "applyCoupon", ParsedData(d, applyCouponKeys), applyCouponSchema(d), "app_site")

AppSite(p) == ResolveSite(p, "app_site", "app_tx")

\* the times db.runTransaction runs the transaction function before it
\* gives up and rejects
MaxAttempts == 5

\* the runs of the transaction function of slot p so far
Attempts(p) == IF Has(loc[p], "attempts") THEN loc[p].attempts ELSE 0

\* the commit failed: the transaction function runs again, or, after the
\* last attempt, runTransaction rejects and withErrorHandling answers
Retry(p) ==
    IF loc[p].attempts < MaxAttempts
    THEN /\ Goto(p, "app_tx")
         /\ loc' = [loc EXCEPT ![p] = [attempts |-> loc[p].attempts]]
         /\ UNCHANGED resp
    ELSE Finish(p, Err("INTERNAL_ERROR"))

\* what the transaction function returns for the snapshot it read
\* a result that reports the usedCount that was read
ApplyResultCountRead(id, coupon, d, t) ==
    LET discountAmount == calculateDiscount(coupon.discountType, coupon.discountValue, d.cartTotal)
        finalTotal == Max(d.cartTotal - discountAmount, 0)
    IN  Ok([couponId |-> id,
            orderId |-> d.orderId,
            discountType |-> coupon.discountType,
            discountValue |-> coupon.discountValue,
            discountAmount |-> discountAmount,
            finalTotal |-> finalTotal,
            usedCount |-> coupon.usedCount])

ApplyResult(id, coupon, d, t) ==
    LET discountAmount == calculateDiscount(coupon.discountType, coupon.discountValue, d.cartTotal)
        finalTotal == Max(d.cartTotal - discountAmount, 0)
    IN  Ok([couponId |-> id,
            orderId |-> d.orderId,
            discountType |-> coupon.discountType,
            discountValue |-> coupon.discountValue,
            discountAmount |-> discountAmount,
            finalTotal |-> finalTotal,
            usedCount |-> coupon.usedCount + 1])

\* a transaction function that counts the use before it judges the coupon
AppTxRunCountFirst(p) ==
    /\ pc[p] = "app_tx"
    /\ LET id == req[p].couponId IN
       IF id \notin DOMAIN coupons
       THEN Finish(p, Err("COUPON_NOT_FOUND")) /\ UNCHANGED <<coupons, version>>
       ELSE LET coupon == coupons[id]
                elig == validateCouponEligibility(coupon, req[p].cartTotal, now)
            IN  IF coupon.siteId # req[p].siteId
                THEN Finish(p, Err("FORBIDDEN")) /\ UNCHANGED <<coupons, version>>
                ELSE IF elig # "none"
                THEN /\ Finish(p, Err(elig))
                     /\ coupons' = [coupons EXCEPT ![id].usedCount = @ + 1]
                     /\ version' = [version EXCEPT ![id] = @ + 1]
                ELSE /\ Goto(p, "app_commit")
                     /\ loc' = [loc EXCEPT ![p] =
                                   [readVersion |-> version[id],
                                    usedCount |-> coupon.usedCount + 1,
                                    updatedAt |-> now,
                                    result |-> ApplyResult(id, coupon, req[p], now),
                                    attempts |-> Attempts(p) + 1]]
                     /\ UNCHANGED <<resp, coupons, version>>
    /\ UNCHANGED <<nextId, req, fn, now, nreq, used0>>

\* a transaction function that judges the coupon before it compares the
\* coupon's site with the request's
AppTxRunEligibilityFirst(p) ==
    /\ pc[p] = "app_tx"
    /\ LET id == req[p].couponId IN
       IF id \notin DOMAIN coupons
       THEN Finish(p, Err("COUPON_NOT_FOUND"))
       ELSE LET coupon == coupons[id]
                elig == validateCouponEligibility(coupon, req[p].cartTotal, now)
            IN  IF elig # "none"
                THEN Finish(p, Err(elig))
                ELSE IF coupon.siteId # req[p].siteId
                THEN Finish(p, Err("FORBIDDEN"))
                ELSE /\ Goto(p, "app_commit")
                     /\ loc' = [loc EXCEPT ![p] =
                                   [readVersion |-> version[id],
                                    usedCount |-> coupon.usedCount + 1,
                                    updatedAt |-> now,
                                    result |-> ApplyResult(id, coupon, req[p], now),
                                    attempts |-> Attempts(p) + 1]]
                     /\ UNCHANGED resp
    /\ UNCHANGED <<coupons, version, nextId, req, fn, now, nreq, used0>>

\* one run of the function passed to db.runTransaction: transaction.get, the
\* checks, and the buffered transaction.update
AppTxRun(p) ==
    /\ pc[p] = "app_tx"
    /\ LET id == req[p].couponId IN
       IF id \notin DOMAIN coupons
       THEN Finish(p, Err("COUPON_NOT_FOUND"))
       ELSE LET coupon == coupons[id]
                elig == validateCouponEligibility(coupon, req[p].cartTotal, now)
            IN  IF coupon.siteId # req[p].siteId
                THEN Finish(p, Err("FORBIDDEN"))
                ELSE IF elig # "none"
                THEN Finish(p, Err(elig))
                ELSE /\ Goto(p, "app_commit")
                     /\ loc' = [loc EXCEPT ![p] =
                                   [readVersion |-> version[id],
                                    usedCount |-> coupon.usedCount + 1,
                                    updatedAt |-> now,
                                    result |-> ApplyResult(id, coupon, req[p], now),
                                    attempts |-> Attempts(p) + 1]]
                     /\ UNCHANGED resp
    /\ UNCHANGED <<coupons, version, nextId, req, fn, now, nreq, used0>>

\* the buffered write of a transaction is stored
TxWrite(p, id) ==
    /\ coupons' = [coupons EXCEPT ![id] =
                      Merge(@, [usedCount |-> loc[p].usedCount,
                                updatedAt |-> loc[p].updatedAt])]
    /\ version' = [version EXCEPT ![id] = @ + 1]
    /\ UNCHANGED used0
    /\ Finish(p, loc[p].result)

\* a commit that stores the write whatever happened to the document since
\* it was read
AppCommitBlind(p) ==
    /\ pc[p] = "app_commit"
    /\ req[p].couponId \in DOMAIN coupons
    /\ TxWrite(p, req[p].couponId)
    /\ UNCHANGED <<nextId, req, fn, now, nreq>>

\* a commit that counts an order once: when an apply with the same orderId
\* on the same coupon has succeeded, its result is returned again
AppCommitOncePerOrder(p) ==
    /\ pc[p] = "app_commit"
    /\ LET id == req[p].couponId
           earlier == {q \in Procs : /\ q # p /\ fn[q] = "applyCoupon" /\ pc[q] = "done"
                                     /\ IsOk(resp[q])
                                     /\ req[q].couponId = id
                                     /\ req[q].orderId = req[p].orderId}
       IN  IF earlier # {}
           THEN /\ \E q \in earlier : Finish(p, resp[q])
                /\ UNCHANGED <<coupons, version, used0>>
           ELSE IF id \in DOMAIN coupons /\ version[id] = loc[p].readVersion
           THEN TxWrite(p, id)
           ELSE Retry(p) /\ UNCHANGED <<coupons, version, used0>>
    /\ UNCHANGED <<nextId, req, fn, now, nreq>>

\* a commit that waits for the document to be as it was read
AppCommitWaiting(p) ==
    /\ pc[p] = "app_commit"
    /\ req[p].couponId \in DOMAIN coupons
    /\ version[req[p].couponId] = loc[p].readVersion
    /\ TxWrite(p, req[p].couponId)
    /\ UNCHANGED <<nextId, req, fn, now, nreq>>

\* commit of the transaction: the write is stored only if the document read
\* is unchanged since; otherwise the transaction function runs again, up to
\* MaxAttempts runs in all
AppCommit(p) ==
    /\ pc[p] = "app_commit"
    /\ LET id == req[p].couponId IN
       IF id \in DOMAIN coupons /\ version[id] = loc[p].readVersion
       THEN TxWrite(p, id)
       ELSE Retry(p) /\ UNCHANGED <<coupons, version, used0>>
    /\ UNCHANGED <<nextId, req, fn, now, nreq>>

----------------------------------------------------------------------------
(* createCoupon *)

StartCreate(p, d) ==
    Begin(p, "createCoupon", ParsedData(d, createCouponKeys), createCouponSchema(d), "cre_site")

\* a create that goes from the site straight to the uniqueness check
CreSiteWithoutLimit(p) == ResolveSite(p, "cre_site", "cre_query")

CreSite(p) == ResolveSite(p, "cre_site", "cre_limit")

\* canCreateCoupon(userId, siteId).allowed: the verdicts the plan-limit helper
\* may give
canCreateCoupon(userId, siteId) == BOOLEAN

CreLimit(p) ==
    /\ pc[p] = "cre_limit"
    /\ \E allowed \in canCreateCoupon(getSiteUserId(req[p].siteId), req[p].siteId) :
          IF ~allowed
          THEN Finish(p, Err("COUPON_LIMIT_REACHED"))
          ELSE Goto(p, "cre_query") /\ UNCHANGED <<resp, loc>>
    /\ UNCHANGED <<coupons, version, nextId, req, fn, now, nreq, used0>>

\* a document that leaves out the limits the request does not give
couponDataWithoutNulls(d, userId, t) ==
    [k \in {"siteId", "userId", "code", "discountType", "discountValue", "usedCount",
            "validFrom", "validUntil", "isActive", "createdAt", "updatedAt"}
           \cup (DOMAIN d \cap {"minPurchase", "maxUses"}) |->
        CASE k = "userId" -> userId
          [] k = "code" -> toUpperCase(d.code)
          [] k = "usedCount" -> 0
          [] k = "isActive" -> TRUE
          [] k \in {"createdAt", "updatedAt"} -> t
          [] OTHER -> d[k]]

\* the document createCoupon adds
couponData(d, userId, t) ==
    [siteId |-> d.siteId,
     userId |-> userId,
     code |-> toUpperCase(d.code),
     discountType |-> d.discountType,
     discountValue |-> d.discountValue,
     minPurchase |-> IF Has(d, "minPurchase") THEN d.minPurchase ELSE Null,
     maxUses |-> IF Has(d, "maxUses") THEN d.maxUses ELSE Null,
     usedCount |-> 0,
     validFrom |-> d.validFrom,
     validUntil |-> d.validUntil,
     isActive |-> TRUE,
     createdAt |-> t,
     updatedAt |-> t]

\* the pre-check querying the code as the caller wrote it
CreQueryRawCode(p) ==
    /\ pc[p] = "cre_query"
    /\ IF couponByCodeQuery(coupons, req[p].siteId, req[p].code) # {}
       THEN Finish(p, Err("DUPLICATE_CODE"))
       ELSE /\ Goto(p, "cre_add")
            /\ loc' = [loc EXCEPT ![p] =
                         [couponData |-> couponData(req[p], getSiteUserId(req[p].siteId), now)]]
            /\ UNCHANGED resp
    /\ UNCHANGED <<coupons, version, nextId, req, fn, now, nreq, used0>>

\* the uniqueness pre-check, then the document is built and add() is called
CreQuery(p) ==
    /\ pc[p] = "cre_query"
    /\ IF couponByCodeQuery(coupons, req[p].siteId, toUpperCase(req[p].code)) # {}
       THEN Finish(p, Err("DUPLICATE_CODE"))
       ELSE /\ Goto(p, "cre_add")
            /\ loc' = [loc EXCEPT ![p] =
                         [couponData |-> couponData(req[p], getSiteUserId(req[p].siteId), now)]]
            /\ UNCHANGED resp
    /\ UNCHANGED <<coupons, version, nextId, req, fn, now, nreq, used0>>

\* an insert that looks for the code once more and refuses when it is taken
CreAddChecked(p) ==
    /\ pc[p] = "cre_add"
    /\ nextId < Len(DocIds)
    /\ IF couponByCodeQuery(coupons, loc[p].couponData.siteId, loc[p].couponData.code) # {}
       THEN /\ Finish(p, Err("DUPLICATE_CODE"))
            /\ UNCHANGED <<coupons, version, used0, nextId>>
       ELSE LET id == DocIds[nextId + 1] IN
              /\ coupons' = coupons @@ (id :> loc[p].couponData)
              /\ version' = version @@ (id :> 0)
              /\ used0' = used0 @@ (id :> 0)
              /\ nextId' = nextId + 1
              /\ Finish(p, Ok(toCouponDocument(id, loc[p].couponData)))
    /\ UNCHANGED <<req, fn, now, nreq>>

\* couponsCollection.add(couponData): stored under a fresh id
CreAdd(p) ==
    /\ pc[p] = "cre_add"
    /\ nextId < Len(DocIds)
    /\ LET id == DocIds[nextId + 1] IN
         /\ coupons' = coupons @@ (id :> loc[p].couponData)
         /\ version' = version @@ (id :> 0)
         /\ used0' = used0 @@ (id :> 0)
         /\ nextId' = nextId + 1
         /\ Finish(p, Ok(toCouponDocument(id, loc[p].couponData)))
    /\ UNCHANGED <<req, fn, now, nreq>>

----------------------------------------------------------------------------
(* getCoupons *)

StartGet(p, d) ==
    Begin(p, "getCoupons", ParsedData(d, getCouponsKeys), getCouponsSchema(d), "get_site")

GetSite(p) == ResolveSite(p, "get_site", "get_query")

\* snapshot.docs.map(toCouponDocument): the list of the matching documents,
\* each under its id; the list of a site without coupons is empty, not null
GetQuery(p) ==
    /\ pc[p] = "get_query"
    /\ Finish(p, Ok([id \in couponsBySiteQuery(coupons, req[p].siteId) |->
                        toCouponDocument(id, coupons[id])]))
    /\ UNCHANGED <<coupons, version, nextId, req, fn, now, nreq, used0>>

----------------------------------------------------------------------------
(* updateCoupon *)

StartUpdate(p, d) ==
    Begin(p, "updateCoupon", ParsedData(d, updateCouponKeys), updateCouponSchema(d), "upd_site")

UpdSite(p) == ResolveSite(p, "upd_site", "upd_read")

\* the cross-field validation against the document read, then the update
\* set is built and update() is called
UpdValidate(p, currentData) ==
    IF validateUpdateFields(currentData, req[p]) # "none"
    THEN Finish(p, Err(validateUpdateFields(currentData, req[p])))
    ELSE /\ Goto(p, "upd_write")
         /\ loc' = [loc EXCEPT ![p] = [cleanUpdates |-> buildCleanUpdates(req[p], now)]]
         /\ UNCHANGED resp

\* every update that carries a code is taken as a change of code
CodeChangesAlways(d, currentData) == Has(d, "code")

\* updates.code is given and differs from the stored code
CodeChanges(d, currentData) ==
    Has(d, "code") /\ toUpperCase(d.code) # currentData.code

\* an update that validates the merged values before it looks for the code
UpdReadValidateFirst(p) ==
    /\ pc[p] = "upd_read"
    /\ LET id == req[p].couponId IN
       IF id \notin DOMAIN coupons
       THEN Finish(p, Err("COUPON_NOT_FOUND"))
       ELSE IF coupons[id].siteId # req[p].siteId
       THEN Finish(p, Err("FORBIDDEN"))
       ELSE IF validateUpdateFields(coupons[id], req[p]) # "none"
       THEN Finish(p, Err(validateUpdateFields(coupons[id], req[p])))
       ELSE IF CodeChanges(req[p], coupons[id])
       THEN /\ Goto(p, "upd_query")
            /\ loc' = [loc EXCEPT ![p] = [currentData |-> coupons[id]]]
            /\ UNCHANGED resp
       ELSE UpdValidate(p, coupons[id])
    /\ UNCHANGED <<coupons, version, nextId, req, fn, now, nreq, used0>>

\* couponRef.get(), existence and ownership
UpdRead(p) ==
    /\ pc[p] = "upd_read"
    /\ LET id == req[p].couponId IN
       IF id \notin DOMAIN coupons
       THEN Finish(p, Err("COUPON_NOT_FOUND"))
       ELSE IF coupons[id].siteId # req[p].siteId
       THEN Finish(p, Err("FORBIDDEN"))
       ELSE IF CodeChanges(req[p], coupons[id])
       THEN /\ Goto(p, "upd_query")
            /\ loc' = [loc EXCEPT ![p] = [currentData |-> coupons[id]]]
            /\ UNCHANGED resp
       ELSE UpdValidate(p, coupons[id])
    /\ UNCHANGED <<coupons, version, nextId, req, fn, now, nreq, used0>>

\* the uniqueness pre-check of a changed code
UpdQuery(p) ==
    /\ pc[p] = "upd_query"
    /\ IF couponByCodeQuery(coupons, req[p].siteId, toUpperCase(req[p].code)) # {}
       THEN Finish(p, Err("DUPLICATE_CODE"))
       ELSE UpdValidate(p, loc[p].currentData)
    /\ UNCHANGED <<coupons, version, nextId, req, fn, now, nreq, used0>>

\* an update whose write a transaction that read the document before it
\* does not notice
UpdWriteUnnoticed(p) ==
    /\ pc[p] = "upd_write"
    /\ LET id == req[p].couponId IN
       IF id \notin DOMAIN coupons
       THEN /\ Finish(p, Err("INTERNAL_ERROR"))
            /\ UNCHANGED <<coupons, version>>
       ELSE /\ coupons' = [coupons EXCEPT ![id] = Merge(@, loc[p].cleanUpdates)]
            /\ Goto(p, "upd_reread")
            /\ loc' = [loc EXCEPT ![p] = NoLoc]
            /\ UNCHANGED <<resp, version>>
    /\ UNCHANGED <<nextId, req, fn, now, nreq, used0>>

\* couponRef.update(cleanUpdates): fails when the document is gone
UpdWrite(p) ==
    /\ pc[p] = "upd_write"
    /\ LET id == req[p].couponId IN
       IF id \notin DOMAIN coupons
       THEN /\ Finish(p, Err("INTERNAL_ERROR"))
            /\ UNCHANGED <<coupons, version>>
       ELSE /\ coupons' = [coupons EXCEPT ![id] = Merge(@, loc[p].cleanUpdates)]
            /\ version' = [version EXCEPT ![id] = @ + 1]
            /\ Goto(p, "upd_reread")
            /\ loc' = [loc EXCEPT ![p] = NoLoc]
            /\ UNCHANGED resp
    /\ UNCHANGED <<nextId, req, fn, now, nreq, used0>>

\* couponRef.get() again; toCouponDocument throws when the document is gone
UpdReread(p) ==
    /\ pc[p] = "upd_reread"
    /\ LET id == req[p].couponId IN
       IF id \notin DOMAIN coupons
       THEN Finish(p, Err("INTERNAL_ERROR"))
       ELSE Finish(p, Ok(toCouponDocument(id, coupons[id])))
    /\ UNCHANGED <<coupons, version, nextId, req, fn, now, nreq, used0>>

----------------------------------------------------------------------------
(* deleteCoupon *)

StartDelete(p, d) ==
    Begin(p, "deleteCoupon", ParsedData(d, deleteCouponKeys), deleteCouponSchema(d), "del_site")

DelSite(p) == ResolveSite(p, "del_site", "del_read")

\* a delete that does not compare the coupon's site with the request's
DelReadAnySite(p) ==
    /\ pc[p] = "del_read"
    /\ LET id == req[p].couponId IN
       IF id \notin DOMAIN coupons
       THEN Finish(p, Err("COUPON_NOT_FOUND"))
       ELSE Goto(p, "del_delete") /\ UNCHANGED <<resp, loc>>
    /\ UNCHANGED <<coupons, version, nextId, req, fn, now, nreq, used0>>

DelRead(p) ==
    /\ pc[p] = "del_read"
    /\ LET id == req[p].couponId IN
       IF id \notin DOMAIN coupons
       THEN Finish(p, Err("COUPON_NOT_FOUND"))
       ELSE IF coupons[id].siteId # req[p].siteId
       THEN Finish(p, Err("FORBIDDEN"))
       ELSE Goto(p, "del_delete") /\ UNCHANGED <<resp, loc>>
    /\ UNCHANGED <<coupons, version, nextId, req, fn, now, nreq, used0>>

Remove(f, id) == [k \in DOMAIN f \ {id} |-> f[k]]

\* a delete that keeps the document and marks it inactive
DelDeleteSoft(p) ==
    /\ pc[p] = "del_delete"
    /\ coupons' = [id \in DOMAIN coupons |->
                     IF id = req[p].couponId
                     THEN Merge(coupons[id], [isActive |-> FALSE])
                     ELSE coupons[id]]
    /\ UNCHANGED <<version, used0>>
    /\ Finish(p, Ok([id |-> req[p].couponId]))
    /\ UNCHANGED <<nextId, req, fn, now, nreq>>

\* couponRef.delete(): succeeds also when the document is already gone
DelDelete(p) ==
    /\ pc[p] = "del_delete"
    /\ coupons' = Remove(coupons, req[p].couponId)
    /\ version' = Remove(version, req[p].couponId)
    /\ used0' = Remove(used0, req[p].couponId)
    /\ Finish(p, Ok([id |-> req[p].couponId]))
    /\ UNCHANGED <<nextId, req, fn, now, nreq>>

----------------------------------------------------------------------------
(* validateCoupon *)

StartValidate(p, d) ==
    Begin(p, "validateCoupon", ParsedData(d, validateCouponKeys), validateCouponSchema(d), "val_site")

ValSite(p) == ResolveSite(p, "val_site", "val_query")

\* a preview that does not look at the use limit
ValidateResultIgnoringUses(id, coupon, d, t) ==
    LET elig == validateCouponEligibility(Merge(coupon, [maxUses |-> Null]), d.cartTotal, t)
        discountAmount == calculateDiscount(coupon.discountType, coupon.discountValue, d.cartTotal)
        finalTotal == d.cartTotal - discountAmount
    IN  IF elig # "none"
        THEN Err(elig)
        ELSE Ok([valid |-> TRUE,
                 couponId |-> id,
                 code |-> coupon.code,
                 discountType |-> coupon.discountType,
                 discountValue |-> coupon.discountValue,
                 discountAmount |-> discountAmount,
                 finalTotal |-> Max(finalTotal, 0)])

\* the response for the document the query returned
ValidateResult(id, coupon, d, t) ==
    LET elig == validateCouponEligibility(coupon, d.cartTotal, t)
        discountAmount == calculateDiscount(coupon.discountType, coupon.discountValue, d.cartTotal)
        finalTotal == d.cartTotal - discountAmount
    IN  IF elig # "none"
        THEN Err(elig)
        ELSE Ok([valid |-> TRUE,
                 couponId |-> id,
                 code |-> coupon.code,
                 discountType |-> coupon.discountType,
                 discountValue |-> coupon.discountValue,
                 discountAmount |-> discountAmount,
                 finalTotal |-> Max(finalTotal, 0)])

\* the responses validateCoupon may give on a store: limit(1) returns one of
\* the matching documents, whichever the store lists first
ValidateResults(store, d, t) ==
    LET found == couponByCodeQuery(store, d.siteId, toUpperCase(d.code))
    IN  IF found = {}
        THEN {Err("COUPON_NOT_FOUND")}
        ELSE {ValidateResult(id, store[id], d, t) : id \in found}

\* a validation that counts a use of the coupon it accepts
ValQueryCounting(p) ==
    /\ pc[p] = "val_query"
    /\ \E r \in ValidateResults(coupons, req[p], now) :
          /\ Finish(p, r)
          /\ coupons' = IF IsOk(r)
                        THEN [coupons EXCEPT ![r.data.couponId].usedCount = @ + 1]
                        ELSE coupons
    /\ UNCHANGED <<version, nextId, req, fn, now, nreq, used0>>

ValQuery(p) ==
    /\ pc[p] = "val_query"
    /\ \E r \in ValidateResults(coupons, req[p], now) : Finish(p, r)
    /\ UNCHANGED <<coupons, version, nextId, req, fn, now, nreq, used0>>

----------------------------------------------------------------------------
(* Stored documents the specifications start from *)

Doc(site, code, type, value, minPurchase, maxUses, usedCount, from, until, active) ==
    [siteId |-> site, userId |-> Sites[site], code |-> code,
     discountType |-> type, discountValue |-> value,
     minPurchase |-> minPurchase, maxUses |-> maxUses, usedCount |-> usedCount,
     validFrom |-> from, validUntil |-> until, isActive |-> active,
     createdAt |-> 0, updatedAt |-> 0]

InitWith(store) ==
    /\ coupons = store
    /\ version = [id \in DOMAIN store |-> 0]
    /\ used0 = [id \in DOMAIN store |-> store[id].usedCount]
    /\ nextId = Cardinality(DOMAIN store)
    /\ pc = [p \in Procs |-> "idle"]
    /\ req = [p \in Procs |-> NoReq]
    /\ fn = [p \in Procs |-> "none"]
    /\ loc = [p \in Procs |-> NoLoc]
    /\ resp = [p \in Procs |-> NoResp]
    /\ now = 0
    /\ nreq = 0

----------------------------------------------------------------------------
(* The steps of the handlers, by operation *)

CreateSteps == \E p \in Procs : CreSite(p) \/ CreLimit(p) \/ CreQuery(p) \/ CreAdd(p)
GetSteps == \E p \in Procs : GetSite(p) \/ GetQuery(p)
UpdateSteps ==
    \E p \in Procs : UpdSite(p) \/ UpdRead(p) \/ UpdQuery(p) \/ UpdWrite(p) \/ UpdReread(p)
DeleteSteps == \E p \in Procs : DelSite(p) \/ DelRead(p) \/ DelDelete(p)
ValidateSteps == \E p \in Procs : ValSite(p) \/ ValQuery(p)
ApplySteps == \E p \in Procs : AppSite(p) \/ AppTxRun(p) \/ AppCommit(p)
Returns == \E p \in Procs : Return(p)

----------------------------------------------------------------------------
(* Spec: the six operations, in any order and interleaving, on two sites *)

\* the stored coupons at the start: one per site, as the seed script leaves
\* them, the first possibly used already
Seeds ==
    {[c1 |-> Doc("s1", "A", "percentage", Num(50), Null, 2, usedCount, 0, 3, TRUE),
      c2 |-> Doc("s2", "B", "fixed", Num(50), Null, Null, 0, 0, 3, TRUE)] :
        usedCount \in {0, 1}}

Init == \E store \in Seeds : InitWith(store)

CreateInputs ==
    [siteId : {"s1", "s2"}, code : {"a", "b"}, discountType : {"percentage"},
     discountValue : {Num(50)}, validFrom : {0}, validUntil : {3}]
    \cup
    [siteId : {"s1"}, code : {"b"}, discountType : {"fixed"},
     discountValue : {Num(150)}, maxUses : {1}, validFrom : {0}, validUntil : {3}]

GetInputs == [siteId : {"s1", "s2", "s9"}]

UpdateInputs ==
    [siteId : {"s1", "s2"}, couponId : {"c1", "c2"}, maxUses : {Null, 1}]
    \cup [siteId : {"s1", "s2"}, couponId : {"c1", "c2"}, isActive : {FALSE}]
    \cup [siteId : {"s1"}, couponId : {"c1"}, code : {"b"}]
    \cup [siteId : {"s2"}, couponId : {"c2"}, discountType : {"percentage"}]
    \cup [siteId : {"s2"}, couponId : {"c2"}, discountValue : {Num(150)}]
    \cup [siteId : {"s2"}, couponId : {"c2"}, validFrom : {2}]
    \cup [siteId : {"s2"}, couponId : {"c2"}, validUntil : {1}]

DeleteInputs == [siteId : {"s1", "s2"}, couponId : {"c1", "c2"}]

ValidateInputs == [siteId : {"s1", "s2"}, code : {"a", "b"}, cartTotal : {Num(100)}]

AllApplyInputs ==
    [siteId : {"s1", "s2"}, couponId : {"c1", "c2"}, orderId : {"o1"}, cartTotal : {Num(100)}]

Next ==
    \/ \E p \in Procs, d \in CreateInputs : nreq < MaxRequests /\ StartCreate(p, d)
    \/ \E p \in Procs, d \in GetInputs : nreq < MaxRequests /\ StartGet(p, d)
    \/ \E p \in Procs, d \in UpdateInputs : nreq < MaxRequests /\ StartUpdate(p, d)
    \/ \E p \in Procs, d \in DeleteInputs : nreq < MaxRequests /\ StartDelete(p, d)
    \/ \E p \in Procs, d \in ValidateInputs : nreq < MaxRequests /\ StartValidate(p, d)
    \/ \E p \in Procs, d \in AllApplyInputs : nreq < MaxRequests /\ StartApply(p, d)
    \/ CreateSteps
    \/ GetSteps
    \/ UpdateSteps
    \/ DeleteSteps
    \/ ValidateSteps
    \/ ApplySteps
    \/ Returns
    \/ Tick

Spec == Init /\ [][Next]_vars

\* C4: every stored coupon of type percentage has discountValue <= 100, also
\* when two updateCoupon requests on it interleave.
C4_PercentageAtMost100 ==
    \A id \in DOMAIN coupons :
        coupons[id].discountType = "percentage"
        => coupons[id].discountValue <= Num(100)

\* C5: every stored coupon has validFrom strictly before validUntil, also
\* when two updateCoupon requests on it interleave.
C5_ValidFromBeforeUntil ==
    \A id \in DOMAIN coupons : coupons[id].validFrom < coupons[id].validUntil

----------------------------------------------------------------------------
(* SpecSeq: create, update, delete and apply requests executed one at a    *)
(* time                                                                    *)

\* every earlier request has returned
Quiet == \A q \in Procs : Idle(q)

SeqCreateInputs ==
    [siteId : {"s1", "s2"}, code : {"a", "b"}, discountType : {"percentage"},
     discountValue : {Num(50)}, validFrom : {0}, validUntil : {3}]

SeqUpdateInputs ==
    [siteId : {"s1", "s2"}, couponId : {"c1", "c2", "c3"}, code : {"a", "b"}]
    \cup [siteId : {"s1"}, couponId : {"c1"}, maxUses : {1}]

SeqDeleteInputs == [siteId : {"s1", "s2"}, couponId : {"c1", "c2", "c3"}]

SeqApplyInputs ==
    [siteId : {"s1"}, couponId : {"c1"}, orderId : {"o1"}, cartTotal : {Num(100)}]

NextSeq ==
    \/ \E p \in Procs, d \in SeqCreateInputs :
          nreq < MaxSeqRequests /\ Quiet /\ StartCreate(p, d)
    \/ \E p \in Procs, d \in SeqUpdateInputs :
          nreq < MaxSeqRequests /\ Quiet /\ StartUpdate(p, d)
    \/ \E p \in Procs, d \in SeqDeleteInputs :
          nreq < MaxSeqRequests /\ Quiet /\ StartDelete(p, d)
    \/ \E p \in Procs, d \in SeqApplyInputs :
          nreq < MaxSeqRequests /\ Quiet /\ StartApply(p, d)
    \/ CreateSteps
    \/ UpdateSteps
    \/ DeleteSteps
    \/ ApplySteps
    \/ Returns

SpecSeq == Init /\ [][NextSeq]_vars

\* C3: after any sequence of create, update, delete and apply requests,
\* every stored coupon whose maxUses is set has usedCount <= maxUses.
C3_UsedWithinMaxAlways ==
    \A id \in DOMAIN coupons :
        coupons[id].maxUses # Null => coupons[id].usedCount <= coupons[id].maxUses

\* C9: with requests executed one at a time, no two stored coupons have the
\* same (siteId, uppercased code).
C9_UniqueCodePerSite ==
    \A i, j \in DOMAIN coupons :
        (/\ coupons[i].siteId = coupons[j].siteId
         /\ toUpperCase(coupons[i].code) = toUpperCase(coupons[j].code))
        => i = j

\* a create was refused as a duplicate of the code that an earlier create
\* of the same site stored upper-cased
C9_Witness ==
    /\ \E p \in Procs :
          /\ pc[p] = "done" /\ ErrorCodeOf(resp[p]) = "DUPLICATE_CODE"
          /\ fn[p] = "createCoupon" /\ req[p].siteId = "s1" /\ req[p].code = "b"
    /\ "c3" \in DOMAIN coupons
    /\ coupons["c3"].siteId = "s1" /\ coupons["c3"].code = "B"

----------------------------------------------------------------------------
(* SpecApply: concurrent applyCoupon requests on one stored coupon *)

ApplySeeds ==
    {Doc("s1", "A", "fixed", Num(150), minPurchase, maxUses, usedCount, 0, validUntil, TRUE) :
        minPurchase \in {Null, Num(200)}, maxUses \in {Null, 1, 2}, usedCount \in 0 .. 2,
        validUntil \in {1, 3}}

InitApply ==
    \E c \in ApplySeeds :
        /\ (c.maxUses # Null => c.usedCount <= c.maxUses)
        /\ InitWith([id \in {"c1"} |-> c])

ApplyInputs ==
    [siteId : {"s1"}, couponId : {"c1"}, orderId : {"o1"}, cartTotal : {Num(100), Num(300)}]

NextApply ==
    \/ \E p \in Procs, d \in ApplyInputs : nreq < MaxApplies /\ StartApply(p, d)
    \/ \E p \in Procs : AppSite(p)
    \/ \E p \in Procs : AppTxRun(p)
    \/ \E p \in Procs : AppCommit(p)
    \/ Tick

SpecApply == InitApply /\ [][NextApply]_vars

\* C1: under concurrent applyCoupon requests alone, a coupon with maxUses
\* set never has usedCount above maxUses, in any reachable state.
C1_UsedWithinMax ==
    \A id \in DOMAIN coupons :
        coupons[id].maxUses # Null => coupons[id].usedCount <= coupons[id].maxUses

\* a limited coupon was brought to its cap by two applies that both succeeded
C1_Witness ==
    /\ coupons["c1"].maxUses = 2
    /\ coupons["c1"].usedCount = 2
    /\ used0["c1"] = 0
    /\ version["c1"] = 2
    /\ \E p \in Procs : pc[p] = "done" /\ ErrorCodeOf(resp[p]) = "COUPON_MAX_USES"

\* the applies on coupon id that have returned a success payload
SuccessfulApplies(id) ==
    {p \in Procs : pc[p] = "done" /\ IsOk(resp[p]) /\ resp[p].data.couponId = id}

\* C2: no lost update. The stored usedCount is the initial usedCount plus
\* the number of applies that returned a success payload, and no two
\* successful applies returned the same usedCount.
C2_NoLostUpdate ==
    \A id \in DOMAIN coupons :
        /\ coupons[id].usedCount = used0[id] + Cardinality(SuccessfulApplies(id))
        /\ \A p, q \in SuccessfulApplies(id) :
              p # q => resp[p].data.usedCount # resp[q].data.usedCount

\* two applies that were in their transactions at the same time both
\* succeeded, one of them after running its transaction function again
C2_Witness ==
    \E p, q \in Procs :
        /\ p # q
        /\ pc[p] = "done" /\ IsOk(resp[p]) /\ resp[p].data.usedCount = 1
        /\ pc[q] = "done" /\ IsOk(resp[q]) /\ resp[q].data.usedCount = 2
        /\ coupons["c1"].usedCount = 2


\* C37: the orderId of an applyCoupon is echoed in its result and stored
\* nowhere, and it is not compared: any two applies that succeeded on the
\* same coupon with the same orderId returned different usedCounts, and the
\* stored usedCount counts each of them, so that each takes one of the
\* maxUses.
C37_NotIdempotentPerOrder ==
    /\ \A id \in DOMAIN coupons : ~Has(coupons[id], "orderId")
    /\ \A p \in Procs :
          (fn[p] = "applyCoupon" /\ pc[p] = "done" /\ IsOk(resp[p]))
          => resp[p].data.orderId = req[p].orderId
    /\ \A p, q \in Procs :
          (/\ p # q
           /\ fn[p] = "applyCoupon" /\ fn[q] = "applyCoupon"
           /\ p \in SuccessfulApplies(req[p].couponId)
           /\ q \in SuccessfulApplies(req[p].couponId)
           /\ req[p].orderId = req[q].orderId)
          => LET id == req[p].couponId IN
                 /\ resp[p].data.usedCount # resp[q].data.usedCount
                 /\ coupons[id].usedCount >= used0[id] + 2
                 /\ coupons[id].usedCount
                      >= Max(resp[p].data.usedCount, resp[q].data.usedCount)

\* two applies with orderId o1 succeeded on a coupon limited to two uses,
\* and a third apply with the same orderId was refused for the use limit
C37_Witness ==
    \E p, q, r \in Procs :
        /\ p # q
        /\ fn[r] = "applyCoupon"
        /\ p \in SuccessfulApplies("c1") /\ q \in SuccessfulApplies("c1")
        /\ req[p].orderId = "o1" /\ req[q].orderId = "o1" /\ req[r].orderId = "o1"
        /\ used0["c1"] = 0 /\ coupons["c1"].maxUses = 2 /\ coupons["c1"].usedCount = 2
        /\ pc[r] = "done" /\ ErrorCodeOf(resp[r]) = "COUPON_MAX_USES"

----------------------------------------------------------------------------
(* SpecTenant: requests of one site among the coupons of the other, at a   *)
(* fixed time                                                              *)

TenantCreateInputs ==
    [siteId : {"s1", "s2"}, code : {"b"}, discountType : {"percentage"},
     discountValue : {Num(50)}, validFrom : {0}, validUntil : {3}]

TenantUpdateInputs ==
    [siteId : {"s1", "s2"}, couponId : {"c2"}, isActive : {FALSE}]
    \cup [siteId : {"s1"}, couponId : {"c1"}, code : {"b"}]

TenantDeleteInputs == [siteId : {"s1", "s2"}, couponId : {"c2"}]

TenantValidateInputs ==
    [siteId : {"s1", "s2"}, code : {"a", "b"}, cartTotal : {Num(100)}]
    \cup [siteId : {"s9"}, code : {"a"}, cartTotal : {Num(100)}]
    \cup [siteId : {"s1"}, code : {"a"}, cartTotal : {Num(-1)}]

TenantApplyInputs ==
    [siteId : {"s1"}, couponId : {"c1", "c2"}, orderId : {"o1"}, cartTotal : {Num(100)}]
    \cup [siteId : {"s2"}, couponId : {"c2"}, orderId : {"o1"}, cartTotal : {Num(100)}]

NextTenant ==
    \/ \E p \in Procs, d \in TenantCreateInputs : nreq < MaxRequests /\ StartCreate(p, d)
    \/ \E p \in Procs, d \in TenantUpdateInputs : nreq < MaxRequests /\ StartUpdate(p, d)
    \/ \E p \in Procs, d \in TenantDeleteInputs : nreq < MaxRequests /\ StartDelete(p, d)
    \/ \E p \in Procs, d \in TenantValidateInputs :
          nreq < MaxRequests /\ StartValidate(p, d)
    \/ \E p \in Procs, d \in TenantApplyInputs : nreq < MaxRequests /\ StartApply(p, d)
    \/ CreateSteps
    \/ UpdateSteps
    \/ DeleteSteps
    \/ ValidateSteps
    \/ ApplySteps
    \/ Returns

SpecTenant == Init /\ [][NextTenant]_vars

\* request slot p takes the step
Steps(p) == pc'[p] # pc[p]

\* C6: no step of a validateCoupon request, from its arrival to its return
\* and whatever its outcome, changes the coupon store.
C6_ValidateReadOnly ==
    [][\A p \in Procs :
          (Steps(p) /\ (fn[p] = "validateCoupon" \/ fn'[p] = "validateCoupon"))
          => (coupons' = coupons /\ version' = version)]_vars

\* two validations have answered, one accepting the coupon and one refusing,
\* and the accepted coupon has the usedCount it started with
C6_Witness ==
    \E p, q \in Procs :
        /\ fn[p] = "validateCoupon" /\ pc[p] = "done" /\ IsOk(resp[p])
        /\ resp[p].data.couponId = "c1"
        /\ fn[q] = "validateCoupon" /\ pc[q] = "done"
        /\ ErrorCodeOf(resp[q]) = "COUPON_NOT_FOUND"
        /\ "c1" \in DOMAIN coupons /\ coupons["c1"].usedCount = used0["c1"]

\* the request of slot p has loaded an existing coupon of another site
ForeignCoupon(p) ==
    /\ pc[p] \in {"upd_read", "del_read", "app_tx"}
    /\ req[p].couponId \in DOMAIN coupons
    /\ coupons[req[p].couponId].siteId # req[p].siteId

\* C7: an updateCoupon, deleteCoupon or applyCoupon request of an existing
\* site that loads an existing coupon of another site ends there with
\* FORBIDDEN and the store is left as it was.
C7_ForeignCouponForbidden ==
    [][\A p \in Procs :
          (ForeignCoupon(p) /\ Steps(p))
          => (/\ pc'[p] = "done"
              /\ ErrorCodeOf(resp'[p]) = "FORBIDDEN"
              /\ coupons' = coupons
              /\ version' = version)]_vars

\* a delete and an apply of site s1 on the coupon of site s2 were both
\* refused, and the coupon is stored as it was
C7_Witness ==
    \E p, q \in Procs :
        /\ fn[p] = "deleteCoupon" /\ pc[p] = "done" /\ ErrorCodeOf(resp[p]) = "FORBIDDEN"
        /\ fn[q] = "applyCoupon" /\ pc[q] = "done" /\ ErrorCodeOf(resp[q]) = "FORBIDDEN"
        /\ req[p].siteId = "s1" /\ req[q].siteId = "s1"
        /\ "c2" \in DOMAIN coupons
        /\ coupons["c2"].usedCount = 0 /\ version["c2"] = 0

\* the coupons of one site
SiteView(store, siteId) ==
    [id \in {i \in DOMAIN store : store[i].siteId = siteId} |-> store[id]]

\* C8: the answer of validateCoupon is one it gives on the coupons of the
\* requested site alone, an accepted coupon is stored under that site, and
\* createCoupon passes its pre-check and inserts when no coupon of the
\* requested site has the code, whatever the other sites hold.
C8_TenantIndependence ==
    [][\A p \in Procs :
          /\ (pc[p] = "val_query" /\ Steps(p))
             => /\ resp'[p] \in ValidateResults(SiteView(coupons, req[p].siteId), req[p], now)
                /\ IsOk(resp'[p])
                   => coupons[resp'[p].data.couponId].siteId = req[p].siteId
          /\ (/\ pc[p] = "cre_query" /\ Steps(p)
              /\ \A id \in DOMAIN coupons :
                    coupons[id].siteId = req[p].siteId
                    => coupons[id].code # toUpperCase(req[p].code))
             => pc'[p] = "cre_add"
          /\ (pc[p] = "cre_add" /\ Steps(p))
             => /\ IsOk(resp'[p])
                /\ resp'[p].data.siteId = req[p].siteId]_vars

\* site s1 created code B while site s2 holds its own coupon B, and a
\* validation of B for s1 accepted the coupon of s1
C8_Witness ==
    /\ "c2" \in DOMAIN coupons /\ coupons["c2"].siteId = "s2" /\ coupons["c2"].code = "B"
    /\ "c3" \in DOMAIN coupons /\ coupons["c3"].siteId = "s1" /\ coupons["c3"].code = "B"
    /\ \E p \in Procs :
          /\ fn[p] = "validateCoupon" /\ pc[p] = "done" /\ IsOk(resp[p])
          /\ req[p].siteId = "s1" /\ req[p].code = "b"
          /\ resp[p].data.couponId = "c3"

\* C10: the insert step of createCoupon does not look at the store again: a
\* request that passed the pre-check stores its coupon under a new id even
\* when another request has stored the same (siteId, code) in between.
C10_InsertAfterPreCheck ==
    [][\A p \in Procs :
          (pc[p] = "cre_add" /\ Steps(p))
          => \E id \in DOMAIN coupons' \ DOMAIN coupons :
                /\ coupons'[id] = loc[p].couponData
                /\ coupons'[id].siteId = req[p].siteId
                /\ coupons'[id].code = toUpperCase(req[p].code)
                /\ IsOk(resp'[p])]_vars

\* two creates of the same code on the same site both succeeded and two
\* stored coupons share (siteId, code)
C10_Witness ==
    /\ \E p, q \in Procs :
          /\ p # q
          /\ fn[p] = "createCoupon" /\ pc[p] = "done" /\ IsOk(resp[p])
          /\ fn[q] = "createCoupon" /\ pc[q] = "done" /\ IsOk(resp[q])
          /\ req[p].siteId = req[q].siteId /\ req[p].code = req[q].code
          /\ resp[p].data.id # resp[q].data.id
    /\ \E i, j \in DOMAIN coupons :
          /\ i # j
          /\ coupons[i].siteId = coupons[j].siteId
          /\ coupons[i].code = coupons[j].code


----------------------------------------------------------------------------
(* SpecUse: the six operations on one coupon of a site, the update         *)
(* requests carrying keys of the stored document besides those of the      *)
(* schema                                                                  *)

UseCreateInputs ==
    [siteId : {"s1"}, code : {"b"}, discountType : {"percentage"},
     discountValue : {Num(50)}, maxUses : {1}, validFrom : {0}, validUntil : {3},
     usedCount : {1}]

UseGetInputs == [siteId : {"s1"}]

UseUpdateInputs ==
    [siteId : {"s1"}, couponId : {"c1"}, isActive : {TRUE}, usedCount : {0},
     userId : {"u2"}, createdAt : {1}, id : {"c2"}]
    \cup [siteId : {"s1"}, couponId : {"c1"}, code : {"b"}, maxUses : {Null}]

UseValidateInputs == [siteId : {"s1"}, code : {"a"}, cartTotal : {Num(100)}]

UseApplyInputs ==
    [siteId : {"s1"}, couponId : {"c1"}, orderId : {"o1"}, cartTotal : {Num(100)}]

NextUse ==
    \/ \E p \in Procs, d \in UseCreateInputs : nreq < MaxUseRequests /\ StartCreate(p, d)
    \/ \E p \in Procs, d \in UseGetInputs : nreq < MaxUseRequests /\ StartGet(p, d)
    \/ \E p \in Procs, d \in UseUpdateInputs : nreq < MaxUseRequests /\ StartUpdate(p, d)
    \/ \E p \in Procs, d \in UseValidateInputs :
          nreq < MaxUseRequests /\ StartValidate(p, d)
    \/ \E p \in Procs, d \in UseApplyInputs : nreq < MaxUseRequests /\ StartApply(p, d)
    \/ CreateSteps
    \/ GetSteps
    \/ UpdateSteps
    \/ ValidateSteps
    \/ ApplySteps

SpecUse == Init /\ [][NextUse]_vars

\* the step commits a successful applyCoupon on coupon id
CommitsApply(id) ==
    \E p \in Procs :
        /\ fn[p] = "applyCoupon" /\ req[p].couponId = id
        /\ pc[p] = "app_commit" /\ pc'[p] = "done"
        /\ IsOk(resp'[p])
        /\ resp'[p].data.usedCount = coupons'[id].usedCount

\* C11: a coupon is inserted with usedCount 0, and in every step the
\* usedCount of a stored coupon either stays as it is or grows by exactly 1
\* in the commit of a successful applyCoupon on it; so no step of a create,
\* update, validate or get request changes it, whatever keys the request
\* carries.
C11_UsedCountOnlyByApply ==
    [][\A id \in DOMAIN coupons' :
          IF id \notin DOMAIN coupons
          THEN coupons'[id].usedCount = 0
          ELSE \/ coupons'[id].usedCount = coupons[id].usedCount
               \/ /\ coupons'[id].usedCount = coupons[id].usedCount + 1
                  /\ CommitsApply(id)]_vars

\* an update sent with usedCount 0 was answered with the coupon still at
\* the usedCount 1 an apply had committed, and a create sent with
\* usedCount 1 stored its coupon at 0
C11_Witness ==
    /\ \E p \in Procs :
          /\ fn[p] = "updateCoupon" /\ pc[p] = "done" /\ IsOk(resp[p])
          /\ resp[p].data.usedCount = 1
    /\ used0["c1"] = 0 /\ coupons["c1"].usedCount = 1
    /\ "c3" \in DOMAIN coupons /\ coupons["c3"].usedCount = 0


\* C12: no step changes the siteId, userId or createdAt of a stored coupon,
\* and an updateCoupon or applyCoupon that succeeds answers with the id it
\* was asked for; so after any updates and applies, whatever keys they
\* carry, these fields are the ones the coupon was inserted with.
C12_OwnershipFieldsFixed ==
    [][/\ \A id \in DOMAIN coupons \cap DOMAIN coupons' :
             /\ coupons'[id].siteId = coupons[id].siteId
             /\ coupons'[id].userId = coupons[id].userId
             /\ coupons'[id].createdAt = coupons[id].createdAt
       /\ \A p \in Procs :
             (pc[p] # "done" /\ pc'[p] = "done" /\ IsOk(resp'[p]))
             => /\ fn[p] = "updateCoupon"
                   => /\ resp'[p].data.id = req[p].couponId
                      /\ resp'[p].data.siteId = req[p].siteId
                /\ fn[p] = "applyCoupon"
                   => resp'[p].data.couponId = req[p].couponId]_vars

\* an update sent with another userId, createdAt and id succeeded on a
\* coupon an apply had used, and answered with the coupon's own
C12_Witness ==
    \E p, q \in Procs :
        /\ fn[p] = "updateCoupon" /\ pc[p] = "done" /\ IsOk(resp[p])
        /\ resp[p].data.userId = "u1" /\ resp[p].data.createdAt = 0
        /\ resp[p].data.id = "c1" /\ resp[p].data.siteId = "s1"
        /\ resp[p].data.updatedAt = now
        /\ fn[q] = "applyCoupon" /\ pc[q] = "done" /\ IsOk(resp[q])
        /\ coupons["c1"].userId = "u1" /\ coupons["c1"].createdAt = 0


----------------------------------------------------------------------------
(* SpecElig: validateCouponEligibility on one coupon, for the coupons,     *)
(* cart totals and instants of a bounded set                               *)

\* checks made in one behaviour of SpecElig
MaxChecks == 2

\* the limits a coupon may carry: the key missing, null, or a number
WithLimits(docs, key, values) ==
    docs \cup {Merge(doc, key :> v) : doc \in docs, v \in values}

EligCoupons ==
    WithLimits(
        WithLimits(
            {[isActive |-> a, validFrom |-> from, validUntil |-> from + 1,
              usedCount |-> u] :
                a \in BOOLEAN, from \in {0, 1}, u \in 0 .. 2},
            "maxUses", {Null, 1, 2}),
        "minPurchase", {Null, Num(100)})

EligCartTotals == {0, Num(100) - 1, Num(100), Num(100) + 1}

InitElig ==
    /\ \E doc \in EligCoupons : coupons = [c1 |-> doc]
    /\ now = 0
    /\ version = [c1 |-> 0]
    /\ used0 = [c1 |-> coupons["c1"].usedCount]
    /\ nextId = 1
    /\ pc = [p \in Procs |-> "idle"]
    /\ req = [p \in Procs |-> NoReq]
    /\ fn = [p \in Procs |-> "none"]
    /\ loc = [p \in Procs |-> NoLoc]
    /\ resp = [p \in Procs |-> NoResp]
    /\ nreq = 0

\* const eligibilityError = validateCouponEligibility(coupon, cartTotal),
\* which reads the clock once (const now = new Date())
CheckEligibility(p, cartTotal) ==
    /\ Idle(p)
    /\ \A q \in Procs : q < p => ~Idle(q)
    /\ nreq < MaxChecks
    /\ nreq' = nreq + 1
    /\ fn' = [fn EXCEPT ![p] = "validateCouponEligibility"]
    /\ req' = [req EXCEPT ![p] = [cartTotal |-> cartTotal]]
    /\ loc' = [loc EXCEPT ![p] =
                 [now |-> now,
                  eligibilityError |->
                    validateCouponEligibility(coupons["c1"], cartTotal, now)]]
    /\ pc' = [pc EXCEPT ![p] = "done"]
    /\ UNCHANGED <<coupons, version, nextId, resp, now, used0>>

NextElig ==
    \/ \E p \in Procs, cartTotal \in EligCartTotals : CheckEligibility(p, cartTotal)
    \/ Tick

SpecElig == InitElig /\ [][NextElig]_vars

\* the eligibility checks that have answered
Checked == {p \in Procs : fn[p] = "validateCouponEligibility" /\ pc[p] = "done"}

\* the conditions of eligibility in the order they are stated, each with
\* the error code of its failure
Conditions(coupon, cartTotal, t) ==
    << <<coupon.isActive, "COUPON_INACTIVE">>,
       <<t >= coupon.validFrom, "COUPON_NOT_YET_VALID">>,
       <<t <= coupon.validUntil, "COUPON_EXPIRED">>,
       <<NotNull(coupon, "maxUses") => coupon.usedCount < coupon.maxUses,
         "COUPON_MAX_USES">>,
       <<NotNull(coupon, "minPurchase") => cartTotal >= coupon.minPurchase,
         "MIN_PURCHASE_NOT_MET">> >>

\* the code of the first condition that fails, "none" when none fails
FirstFailure(conds) ==
    LET failing == {i \in 1 .. Len(conds) : ~conds[i][1]}
    IN  IF failing = {} THEN "none"
        ELSE conds[CHOOSE i \in failing : \A j \in failing : i <= j][2]

\* C13: validateCouponEligibility answers with the error code of the first
\* condition that fails in the order isActive, validFrom, validUntil,
\* maxUses, minPurchase, and with null exactly when none fails.
C13_FirstFailingCheck ==
    \A p \in Checked :
        loc[p].eligibilityError =
            FirstFailure(Conditions(coupons["c1"], req[p].cartTotal, loc[p].now))

\* a coupon past its window, at its use limit and under its minimum
\* purchase was reported as expired
C13_Witness ==
    \E p \in Checked :
        /\ coupons["c1"].isActive /\ loc[p].now > coupons["c1"].validUntil
        /\ NotNull(coupons["c1"], "maxUses")
        /\ coupons["c1"].usedCount >= coupons["c1"].maxUses
        /\ NotNull(coupons["c1"], "minPurchase")
        /\ req[p].cartTotal < coupons["c1"].minPurchase
        /\ loc[p].eligibilityError = "COUPON_EXPIRED"


\* C14: the window is inclusive at both ends: a check made at the instant
\* validUntil is not answered COUPON_EXPIRED, and one made at the instant
\* validFrom is not answered COUPON_NOT_YET_VALID.
C14_WindowInclusive ==
    \A p \in Checked :
        /\ loc[p].now = coupons["c1"].validUntil
           => loc[p].eligibilityError # "COUPON_EXPIRED"
        /\ loc[p].now = coupons["c1"].validFrom
           => loc[p].eligibilityError # "COUPON_NOT_YET_VALID"

\* a coupon was found eligible at the instant validFrom and again at the
\* instant validUntil
C14_Witness ==
    \E p, q \in Checked :
        /\ loc[p].now = coupons["c1"].validFrom
        /\ loc[p].eligibilityError = "none"
        /\ loc[q].now = coupons["c1"].validUntil
        /\ loc[q].eligibilityError = "none"

----------------------------------------------------------------------------
(* SpecDiscount: calculateDiscount for whole discount values and whole     *)
(* cart totals                                                             *)

\* the largest percentage and the largest of the consecutive cart totals
MaxWhole == 100

DiscountCoupons ==
    {[discountType |-> "percentage", discountValue |-> Num(v)] : v \in 1 .. MaxWhole}
    \cup {[discountType |-> "fixed", discountValue |-> Num(v)] :
            v \in {1, 50, 5000, 50000}}

DiscountCartTotals == {Num(c) : c \in (0 .. MaxWhole) \cup {10000, 50000}}

InitDiscount ==
    /\ \E doc \in DiscountCoupons : coupons = [c1 |-> doc]
    /\ now = 0
    /\ version = [c1 |-> 0]
    /\ used0 = [c1 |-> 0]
    /\ nextId = 1
    /\ pc = [p \in Procs |-> "idle"]
    /\ req = [p \in Procs |-> NoReq]
    /\ fn = [p \in Procs |-> "none"]
    /\ loc = [p \in Procs |-> NoLoc]
    /\ resp = [p \in Procs |-> NoResp]
    /\ nreq = 0

\* const discountAmount = calculateDiscount(discountType, discountValue, cartTotal)
CalculateDiscount(cartTotal) ==
    /\ fn' = [fn EXCEPT ![1] = "calculateDiscount"]
    /\ req' = [req EXCEPT ![1] = [cartTotal |-> cartTotal]]
    /\ loc' = [loc EXCEPT ![1] =
                 [discountAmount |->
                    calculateDiscount(coupons["c1"].discountType,
                                      coupons["c1"].discountValue, cartTotal)]]
    /\ pc' = [pc EXCEPT ![1] = "done"]
    /\ UNCHANGED <<coupons, version, nextId, resp, now, nreq, used0>>

NextDiscount == \E cartTotal \in DiscountCartTotals : CalculateDiscount(cartTotal)

SpecDiscount == InitDiscount /\ [][NextDiscount]_vars

\* calculateDiscount has answered
Calculated == fn[1] = "calculateDiscount" /\ pc[1] = "done"

\* the distance between two numbers
Distance(a, b) == IF a >= b THEN a - b ELSE b - a

\* the answer to (discountType, discountValue, cartTotal), when it was asked
Gives(discountType, discountValue, cartTotal, discountAmount) ==
    (/\ coupons["c1"].discountType = discountType
     /\ coupons["c1"].discountValue = Num(discountValue)
     /\ req[1].cartTotal = Num(cartTotal))
    => loc[1].discountAmount = Num(discountAmount)

\* C16: for whole inputs, a percentage gives a whole number at most one
\* half away from cartTotal * discountValue / 100, a fixed discount gives
\* min(discountValue, cartTotal), a cart of 0 gives 0, and the three quoted
\* cases give 5000, 3300 and 10000.
C16_CalculateDiscount ==
    Calculated =>
        LET coupon == coupons["c1"]
            cartTotal == req[1].cartTotal
            discountAmount == loc[1].discountAmount
        IN  /\ coupon.discountType = "percentage"
               => /\ discountAmount % Unit = 0
                  /\ Distance(100 * Unit * discountAmount,
                              cartTotal * coupon.discountValue) <= 100 * Unit
            /\ coupon.discountType = "fixed"
               => /\ discountAmount \in {coupon.discountValue, cartTotal}
                  /\ discountAmount <= coupon.discountValue
                  /\ discountAmount <= cartTotal
            /\ cartTotal = 0 => discountAmount = 0
            /\ Gives("percentage", 10, 50000, 5000)
            /\ Gives("percentage", 33, 10000, 3300)
            /\ Gives("fixed", 50000, 10000, 10000)

\* 29 percent of 50 is 14.5, and the answer was 14
C16_Witness ==
    /\ Calculated
    /\ coupons["c1"].discountType = "percentage"
    /\ coupons["c1"].discountValue = Num(29)
    /\ req[1].cartTotal = Num(50)
    /\ loc[1].discountAmount = Num(14)


----------------------------------------------------------------------------
(* SpecTotals: validateCoupon and applyCoupon on a percentage and a fixed  *)
(* coupon, for cart totals that are whole or end in a half                 *)

TotalsSeeds ==
    {[c1 |-> Doc("s1", "A", "percentage", Num(percent), Null, Null, 0, 0, 3, TRUE),
      c2 |-> Doc("s1", "B", "fixed", Num(50), Null, Null, 0, 0, 3, TRUE)] :
        percent \in {50, 100}}

InitTotals == \E store \in TotalsSeeds : InitWith(store)

TotalsCartTotals == {0, 1, Num(1), Num(1) + 1, Num(50), Num(100)}

TotalsValidateInputs ==
    [siteId : {"s1"}, code : {"a", "b"}, cartTotal : TotalsCartTotals]

TotalsApplyInputs ==
    [siteId : {"s1"}, couponId : {"c1", "c2"}, orderId : {"o1"},
     cartTotal : TotalsCartTotals]

NextTotals ==
    \/ \E p \in Procs, d \in TotalsValidateInputs :
          nreq < MaxRequests /\ StartValidate(p, d)
    \/ \E p \in Procs, d \in TotalsApplyInputs : nreq < MaxRequests /\ StartApply(p, d)
    \/ ValidateSteps
    \/ ApplySteps
    \/ Returns

SpecTotals == InitTotals /\ [][NextTotals]_vars

\* C17: every successful validateCoupon or applyCoupon result has
\* 0 <= discountAmount <= cartTotal and finalTotal = cartTotal -
\* discountAmount >= 0.
C17_DiscountWithinCart ==
    \A p \in Procs :
        (pc[p] = "done" /\ fn[p] \in {"validateCoupon", "applyCoupon"} /\ IsOk(resp[p]))
        => /\ 0 <= resp[p].data.discountAmount
           /\ resp[p].data.discountAmount <= req[p].cartTotal
           /\ resp[p].data.finalTotal = req[p].cartTotal - resp[p].data.discountAmount
           /\ resp[p].data.finalTotal >= 0


----------------------------------------------------------------------------
(* The use limit under SpecApply *)

\* coupon c1 meets, for the request of slot p, every condition but the use
\* limit
OtherwiseEligible(p) ==
    LET coupon == coupons["c1"] IN
        /\ coupon.isActive
        /\ coupon.validFrom <= now /\ now <= coupon.validUntil
        /\ coupon.minPurchase # Null => req[p].cartTotal >= coupon.minPurchase

\* slot p's applyCoupon answers in this step
Answers(p) == pc[p] \in {"app_tx", "app_commit"} /\ pc'[p] = "done"

\* C18: on an otherwise eligible coupon that started at usedCount 0 with
\* maxUses M, an applyCoupon that answers while usedCount is below M
\* succeeds and returns and stores usedCount + 1, so the successes return
\* 1, 2, ..., M in order; one that answers once usedCount is M fails with
\* COUPON_MAX_USES and usedCount stays M.
C18_FirstMAppliesSucceed ==
    [][(used0["c1"] = 0 /\ coupons["c1"].maxUses # Null)
       => \A p \in Procs :
             (Answers(p) /\ OtherwiseEligible(p))
             => IF coupons["c1"].usedCount < coupons["c1"].maxUses
                THEN /\ IsOk(resp'[p])
                     /\ resp'[p].data.usedCount = coupons["c1"].usedCount + 1
                     /\ coupons'["c1"].usedCount = coupons["c1"].usedCount + 1
                ELSE /\ ErrorCodeOf(resp'[p]) = "COUPON_MAX_USES"
                     /\ coupons'["c1"].usedCount = coupons["c1"].maxUses]_vars

\* with maxUses 2, three applies returned usedCount 1, usedCount 2 and
\* COUPON_MAX_USES, and the coupon is at usedCount 2
C18_Witness ==
    /\ used0["c1"] = 0 /\ coupons["c1"].maxUses = 2 /\ coupons["c1"].usedCount = 2
    /\ pc[1] = "done" /\ IsOk(resp[1]) /\ resp[1].data.usedCount = 1
    /\ pc[2] = "done" /\ IsOk(resp[2]) /\ resp[2].data.usedCount = 2
    /\ pc[3] = "done" /\ ErrorCodeOf(resp[3]) = "COUPON_MAX_USES"


----------------------------------------------------------------------------
(* SpecUpdate: updateCoupon requests, one at a time, on a percentage and a *)
(* fixed coupon of one site                                                *)

UpdateSeeds ==
    [c1 |-> Doc("s1", "A", "percentage", Num(50), Num(10), 2, 1, 1, 2, TRUE),
     c2 |-> Doc("s1", "B", "fixed", Num(5000), Null, Null, 0, 1, 2, TRUE)]

InitUpdate == InitWith(UpdateSeeds)

\* the keys every update request carries
UpdateIds == [siteId : {"s1"}, couponId : {"c1", "c2"}]

\* the requests ids with the business fields of fields added
WithFields(ids, fields) == {Merge(i, f) : i \in ids, f \in fields}

PartialUpdateInputs ==
    UpdateIds
    \cup WithFields(UpdateIds, [discountType : DISCOUNT_TYPES])
    \cup WithFields(UpdateIds, [discountValue : {Num(50), Num(150)}])
    \cup WithFields(UpdateIds, [validFrom : {0, 2}])
    \cup WithFields(UpdateIds, [validUntil : {1, 3}])
    \cup WithFields(UpdateIds, [code : {"b", "C"}, discountValue : {Num(150)}])
    \cup WithFields(UpdateIds, [minPurchase : {Null, Num(20)}, isActive : {FALSE}])
    \cup WithFields(UpdateIds, [maxUses : {Null}])

NextUpdate ==
    \/ \E p \in Procs, d \in PartialUpdateInputs :
          nreq < MaxUpdates /\ Quiet /\ StartUpdate(p, d)
    \/ UpdateSteps
    \/ Returns
    \/ Tick

SpecUpdate == InitUpdate /\ [][NextUpdate]_vars

\* the value a field has once the request is merged into the stored coupon
Merged(d, stored, k) == IF Has(d, k) THEN d[k] ELSE stored[k]

\* the merged coupon breaks a cross-field rule
MergedInvalid(d, stored) ==
    \/ /\ Merged(d, stored, "discountType") = "percentage"
       /\ Merged(d, stored, "discountValue") > Num(100)
    \/ ~(Merged(d, stored, "validFrom") < Merged(d, stored, "validUntil"))

\* the update of slot p is past the existence, ownership and code checks
\* and its next step is the validation against the stored coupon
AtValidation(p) ==
    /\ fn[p] = "updateCoupon"
    /\ req[p].couponId \in DOMAIN coupons
    /\ \/ /\ pc[p] = "upd_read"
          /\ coupons[req[p].couponId].siteId = req[p].siteId
          /\ ~CodeChanges(req[p], coupons[req[p].couponId])
       \/ /\ pc[p] = "upd_query"
          /\ \A id \in DOMAIN coupons :
                coupons[id].siteId = req[p].siteId
                => coupons[id].code # toUpperCase(req[p].code)

\* C19: an update that reaches the cross-field validation is answered
\* INVALID_INPUT, the store left as it was, whenever the merged coupon (the
\* request's value where given, else the stored one) is a percentage above
\* 100 or has validFrom not strictly before validUntil; otherwise it goes
\* on to the write.
C19_MergedValuesChecked ==
    [][\A p \in Procs :
          (AtValidation(p) /\ Steps(p))
          => IF MergedInvalid(req[p], coupons[req[p].couponId])
             THEN /\ pc'[p] = "done"
                  /\ ErrorCodeOf(resp'[p]) = "INVALID_INPUT"
                  /\ coupons' = coupons
             ELSE pc'[p] = "upd_write"]_vars

\* {discountType: percentage} on the fixed coupon of value 5000 was
\* answered INVALID_INPUT and the coupon is still fixed
C19_Witness ==
    \E p \in Procs :
        /\ fn[p] = "updateCoupon" /\ pc[p] = "done"
        /\ DOMAIN req[p] = {"siteId", "couponId", "discountType"}
        /\ req[p].couponId = "c2" /\ req[p].discountType = "percentage"
        /\ ErrorCodeOf(resp[p]) = "INVALID_INPUT"
        /\ coupons["c2"] = UpdateSeeds["c2"]


\* the business fields the request of slot p carries
FieldsPresent(p) == DOMAIN req[p] \ {"siteId", "couponId"}

\* the value the request of slot p gives to field k
Requested(p, k) == IF k = "code" THEN toUpperCase(req[p].code) ELSE req[p][k]

\* C20: the write of an updateCoupon stores, for the coupon asked for, the
\* request's value in every business field the request carries (null
\* included) and a fresh updatedAt, and leaves every other field and every
\* other coupon as it was; the answer that follows is the stored coupon.
C20_ExactlyPresentFields ==
    [][\A p \in Procs :
          /\ (pc[p] = "upd_write" /\ pc'[p] = "upd_reread")
             => LET id == req[p].couponId IN
                  /\ DOMAIN coupons' = DOMAIN coupons
                  /\ \A other \in DOMAIN coupons \ {id} : coupons'[other] = coupons[other]
                  /\ DOMAIN coupons'[id] = DOMAIN coupons[id]
                  /\ \A k \in DOMAIN coupons[id] \ {"updatedAt"} :
                        coupons'[id][k] =
                            IF k \in FieldsPresent(p) THEN Requested(p, k)
                            ELSE coupons[id][k]
                  /\ coupons[id].updatedAt <= coupons'[id].updatedAt
                  /\ coupons'[id].updatedAt <= now
          /\ (pc[p] = "upd_reread" /\ pc'[p] = "done")
             => /\ IsOk(resp'[p])
                /\ resp'[p].data = toCouponDocument(req[p].couponId,
                                                    coupons[req[p].couponId])
                /\ coupons' = coupons]_vars

\* an update without business fields, made at a later instant, succeeded
\* and changed only updatedAt; before it an update with minPurchase null
\* had removed the minimum purchase
C20_Witness ==
    \E p \in Procs :
        /\ fn[p] = "updateCoupon" /\ pc[p] = "done" /\ IsOk(resp[p])
        /\ FieldsPresent(p) = {} /\ req[p].couponId = "c1"
        /\ coupons["c1"].updatedAt > 0
        /\ coupons["c1"].minPurchase = Null
        /\ coupons["c1"].isActive = FALSE
        /\ coupons["c1"].maxUses = 2 /\ coupons["c1"].usedCount = 1
        /\ coupons["c1"].code = "A"

----------------------------------------------------------------------------
(* SpecAgree: validateCoupon and applyCoupon requests on one coupon of a   *)
(* site, at one instant                                                    *)

AgreeSeeds ==
    {Doc("s1", "A", kind[1], kind[2], minPurchase, uses[1], uses[2],
         from, from + 1, active) :
        kind \in {<<"percentage", Num(50)>>, <<"percentage", Num(100)>>,
                  <<"fixed", Num(150)>>},
        minPurchase \in {Null, Num(200)}, uses \in {<<Null, 0>>, <<1, 0>>, <<1, 1>>},
        from \in {0, 1}, active \in BOOLEAN}

\* the requests arrive at any instant of the clock, which then stands still
InitAgree ==
    /\ \E c \in AgreeSeeds : coupons = [c1 |-> c]
    /\ now \in 0 .. MaxNow
    /\ version = [c1 |-> 0]
    /\ used0 = [c1 |-> coupons["c1"].usedCount]
    /\ nextId = 1
    /\ pc = [p \in Procs |-> "idle"]
    /\ req = [p \in Procs |-> NoReq]
    /\ fn = [p \in Procs |-> "none"]
    /\ loc = [p \in Procs |-> NoLoc]
    /\ resp = [p \in Procs |-> NoResp]
    /\ nreq = 0

AgreeCartTotals == {1, Num(100), Num(300)}

AgreeValidateInputs == [siteId : {"s1"}, code : {"a"}, cartTotal : AgreeCartTotals]

AgreeApplyInputs ==
    [siteId : {"s1"}, couponId : {"c1"}, orderId : {"o1"}, cartTotal : AgreeCartTotals]

NextAgree ==
    \/ \E p \in Procs, d \in AgreeValidateInputs :
          nreq < MaxRequests /\ StartValidate(p, d)
    \/ \E p \in Procs, d \in AgreeApplyInputs : nreq < MaxRequests /\ StartApply(p, d)
    \/ ValidateSteps
    \/ ApplySteps

SpecAgree == InitAgree /\ [][NextAgree]_vars

\* what the applyCoupon of slot q has found: the result its transaction
\* holds for the commit, or the response it gave
Applied(q) == IF pc[q] = "app_commit" THEN loc[q].result ELSE resp[q]

\* C21: for the same stored coupon, the same cartTotal and the same time, a
\* validateCoupon by the coupon's code succeeds exactly when an applyCoupon
\* by its id does, both give the same error code on failure, and on
\* success the same discountType, discountValue, discountAmount and
\* finalTotal.
C21_ValidateAgreesWithApply ==
    \A p, q \in Procs :
        (/\ fn[p] = "validateCoupon" /\ pc[p] = "done"
         /\ fn[q] = "applyCoupon" /\ pc[q] \in {"app_commit", "done"}
         /\ req[p].cartTotal = req[q].cartTotal
         /\ version["c1"] = 0)
        => /\ IsOk(resp[p]) <=> IsOk(Applied(q))
           /\ ErrorCodeOf(resp[p]) = ErrorCodeOf(Applied(q))
           /\ IsOk(resp[p])
              => \A k \in {"discountType", "discountValue", "discountAmount", "finalTotal"} :
                    resp[p].data[k] = Applied(q).data[k]

\* on a coupon of 100 percent and a cart of one half, the validation and
\* the transaction of the apply both found a discount of 1 and a total of 0
C21_Witness ==
    \E p, q \in Procs :
        /\ fn[p] = "validateCoupon" /\ pc[p] = "done" /\ IsOk(resp[p])
        /\ fn[q] = "applyCoupon" /\ pc[q] = "app_commit"
        /\ req[p].cartTotal = 1 /\ req[q].cartTotal = 1
        /\ version["c1"] = 0
        /\ resp[p].data.discountAmount = Num(1) /\ resp[p].data.finalTotal = 0
        /\ loc[q].result.data.discountAmount = Num(1)
        /\ loc[q].result.data.finalTotal = 0


----------------------------------------------------------------------------
(* SpecErrors: the six operations on two sites, among them requests that   *)
(* break their schema and requests for a site that does not exist, at one  *)
(* instant                                                                 *)

\* the instant at which the requests of SpecErrors arrive
ErrorsNow == 2

\* an eligible coupon of s1, possibly at its use limit, two coupons of s2,
\* one not yet valid and one expired, and an eligible coupon left behind
\* by a site s9 whose document is gone
ErrorsSeeds ==
    {[c1 |-> Doc("s1", "A", "percentage", Num(50), Num(200), 1, usedCount, 0, 3, TRUE),
      c2 |-> Doc("s2", "B", "fixed", Num(150), Null, Null, 0, 3, 4, TRUE),
      c3 |-> Doc("s2", "C", "fixed", Num(150), Null, Null, 0, 0, 1, TRUE),
      c4 |-> Merge(Doc("s2", "A", "fixed", Num(150), Null, Null, 0, 0, 3, TRUE),
                   [siteId |-> "s9"])] :
        usedCount \in {0, 1}}

InitErrors ==
    /\ coupons \in ErrorsSeeds
    /\ now = ErrorsNow
    /\ version = [id \in DOMAIN coupons |-> 0]
    /\ used0 = [id \in DOMAIN coupons |-> coupons[id].usedCount]
    /\ nextId = Cardinality(DOMAIN coupons)
    /\ pc = [p \in Procs |-> "idle"]
    /\ req = [p \in Procs |-> NoReq]
    /\ fn = [p \in Procs |-> "none"]
    /\ loc = [p \in Procs |-> NoLoc]
    /\ resp = [p \in Procs |-> NoResp]
    /\ nreq = 0

\* a duplicate code, a new code, an unknown site, a percentage above 100
ErrorsCreateInputs ==
    [siteId : {"s1"}, code : {"a", "b"}, discountType : {"percentage"},
     discountValue : {Num(50)}, validFrom : {0}, validUntil : {3}]
    \cup [siteId : {"s9"}, code : {"a"}, discountType : {"percentage"},
          discountValue : {Num(50)}, validFrom : {0}, validUntil : {3}]
    \cup [siteId : {"s1"}, code : {"b"}, discountType : {"percentage"},
          discountValue : {Num(150)}, validFrom : {0}, validUntil : {3}]

\* a site, an unknown site, an empty siteId
ErrorsGetInputs == [siteId : {"s1", "s9", ""}]

\* a plain update, a coupon of another site, a validFrom after the stored
\* validUntil, a new code with a value above the stored percentage's 100,
\* an unknown site, a discountValue of 0
ErrorsUpdateInputs ==
    [siteId : {"s1"}, couponId : {"c1", "c2"}, isActive : {FALSE}]
    \cup [siteId : {"s2"}, couponId : {"c2"}, isActive : {FALSE}]
    \cup [siteId : {"s1"}, couponId : {"c1"}, validFrom : {3}]
    \cup [siteId : {"s1"}, couponId : {"c1"}, code : {"b"}, discountValue : {Num(150)}]
    \cup [siteId : {"s9"}, couponId : {"c4"}, isActive : {FALSE}]
    \cup [siteId : {"s1"}, couponId : {"c1"}, discountValue : {0}]

\* a coupon of the site, of another site, an unknown site, an empty couponId
ErrorsDeleteInputs ==
    [siteId : {"s1"}, couponId : {"c1", "c2", ""}]
    \cup [siteId : {"s9"}, couponId : {"c4"}]

ErrorsValidateInputs ==
    [siteId : {"s1"}, code : {"a"}, cartTotal : {Num(100), Num(300), Num(-1)}]
    \cup [siteId : {"s2"}, code : {"a", "b", "c"}, cartTotal : {Num(300)}]
    \cup [siteId : {"s9"}, code : {"a"}, cartTotal : {Num(300)}]

ErrorsApplyInputs ==
    [siteId : {"s1"}, couponId : {"c1", "c2"}, orderId : {"o1"}, cartTotal : {Num(300)}]
    \cup [siteId : {"s9"}, couponId : {"c4"}, orderId : {"o1"}, cartTotal : {Num(300)}]
    \cup [siteId : {"s1"}, couponId : {"c1"}, orderId : {""}, cartTotal : {Num(300)}]

NextErrors ==
    \/ \E p \in Procs, d \in ErrorsCreateInputs : nreq < MaxRequests /\ StartCreate(p, d)
    \/ \E p \in Procs, d \in ErrorsGetInputs : nreq < MaxRequests /\ StartGet(p, d)
    \/ \E p \in Procs, d \in ErrorsUpdateInputs : nreq < MaxRequests /\ StartUpdate(p, d)
    \/ \E p \in Procs, d \in ErrorsDeleteInputs : nreq < MaxRequests /\ StartDelete(p, d)
    \/ \E p \in Procs, d \in ErrorsValidateInputs :
          nreq < MaxRequests /\ StartValidate(p, d)
    \/ \E p \in Procs, d \in ErrorsApplyInputs : nreq < MaxRequests /\ StartApply(p, d)
    \/ CreateSteps
    \/ GetSteps
    \/ UpdateSteps
    \/ DeleteSteps
    \/ ValidateSteps
    \/ ApplySteps

SpecErrors == InitErrors /\ [][NextErrors]_vars

\* C22: every response of the six operations has data and error, data is
\* non-null exactly when error is null, and errorCode is present, and one
\* of the twelve codes, exactly when error is non-null.
C22_ExactlyOneOfDataError ==
    \A p \in Procs :
        pc[p] = "done"
        => /\ Has(resp[p], "data") /\ Has(resp[p], "error")
           /\ resp[p].data # NoData <=> resp[p].error = NoError
           /\ Has(resp[p], "errorCode") <=> resp[p].error # NoError
           /\ Has(resp[p], "errorCode") => resp[p].errorCode \in ErrorCode

\* a deleteCoupon answered with its data and no error, and the updateCoupon
\* it raced with answered INTERNAL_ERROR and no data
C22_Witness ==
    \E p, q \in Procs :
        /\ fn[p] = "deleteCoupon" /\ pc[p] = "done"
        /\ resp[p].error = NoError /\ resp[p].data = [id |-> "c1"]
        /\ ~Has(resp[p], "errorCode")
        /\ fn[q] = "updateCoupon" /\ pc[q] = "done"
        /\ resp[q].data = NoData /\ resp[q].error # NoError
        /\ resp[q].errorCode = "INTERNAL_ERROR"

\* parsed.success for the request of slot p
SchemaHolds(p) ==
    CASE fn[p] = "createCoupon" -> createCouponSchema(req[p])
      [] fn[p] = "getCoupons" -> getCouponsSchema(req[p])
      [] fn[p] = "updateCoupon" -> updateCouponSchema(req[p])
      [] fn[p] = "deleteCoupon" -> deleteCouponSchema(req[p])
      [] fn[p] = "validateCoupon" -> validateCouponSchema(req[p])
      [] fn[p] = "applyCoupon" -> applyCouponSchema(req[p])

\* C23: a request of any of the six operations that violates its schema
\* is answered INVALID_INPUT on arrival and is never at a step that reads,
\* queries or writes the store.
C23_SchemaViolationNoAccess ==
    \A p \in Procs :
        (fn[p] # "none" /\ ~SchemaHolds(p))
        => pc[p] = "done" /\ ErrorCodeOf(resp[p]) = "INVALID_INPUT"

\* a createCoupon with a percentage of 150 and an applyCoupon with an empty
\* orderId were answered INVALID_INPUT, and the store is as it started
C23_Witness ==
    \E p, q \in Procs :
        /\ fn[p] = "createCoupon" /\ req[p].discountValue = Num(150)
        /\ pc[p] = "done" /\ ErrorCodeOf(resp[p]) = "INVALID_INPUT"
        /\ fn[q] = "applyCoupon" /\ req[q].orderId = ""
        /\ pc[q] = "done" /\ ErrorCodeOf(resp[q]) = "INVALID_INPUT"
        /\ DOMAIN coupons = {"c1", "c2", "c3", "c4"}
        /\ \A id \in DOMAIN coupons : version[id] = 0

\* slot p's request is answered INVALID_INPUT in this step
AnswersInvalidInput(p) ==
    pc[p] # "done" /\ pc'[p] = "done" /\ ErrorCodeOf(resp'[p]) = "INVALID_INPUT"

\* the coupon document the updateCoupon of slot p validates against
DocumentRead(p) ==
    IF pc[p] = "upd_read" THEN coupons[req[p].couponId] ELSE loc[p].currentData

\* C24 as stated: whenever an operation returns INVALID_INPUT, the request
\* was rejected on arrival, before any read or write of the store.
C24_InvalidInputBeforeAccess ==
    [][\A p \in Procs : AnswersInvalidInput(p) => pc[p] = "idle"]_vars

\* C24 amended: a request answered INVALID_INPUT either broke its schema
\* and was rejected on arrival, before any store access, or is an
\* updateCoupon that passed its schema and whose merged values (the
\* request's where given, else those of the coupon it read) break a
\* cross-field rule; it is then answered after the site and the coupon
\* (and, for a changed code, the code query) were read, and the store is
\* left as it was.
C24_InvalidInputBeforeWrite ==
    [][\A p \in Procs :
          AnswersInvalidInput(p)
          => \/ pc[p] = "idle" /\ ~SchemaHolds(p)'
             \/ /\ fn[p] = "updateCoupon" /\ pc[p] \in {"upd_read", "upd_query"}
                /\ SchemaHolds(p)
                /\ MergedInvalid(req[p], DocumentRead(p))
                /\ coupons' = coupons /\ version' = version]_vars

\* an updateCoupon with a new code and a discountValue of 150 for the
\* percentage coupon was answered INVALID_INPUT, and the coupon is as it
\* was
C24_Witness ==
    \E p \in Procs :
        /\ fn[p] = "updateCoupon" /\ pc[p] = "done"
        /\ ErrorCodeOf(resp[p]) = "INVALID_INPUT"
        /\ SchemaHolds(p)
        /\ req[p].couponId = "c1" /\ Has(req[p], "code")
        /\ req[p].discountValue = Num(150)
        /\ "c1" \in DOMAIN coupons /\ version["c1"] = 0
        /\ coupons["c1"].code = "A" /\ coupons["c1"].discountValue = Num(50)

\* the steps at which the handlers look the site up
SiteLookups == {"cre_site", "get_site", "upd_site", "del_site", "val_site", "app_site"}

\* the request of slot p passes its schema and names a site without document
UnknownSite(p) ==
    fn[p] # "none" /\ SchemaHolds(p) /\ req[p].siteId \notin DOMAIN Sites

\* C25: a schema-valid request of any of the six operations whose siteId
\* names no existing site is, whatever the store holds, either still at
\* its site lookup or answered SITE_NOT_FOUND: it is never at a step that
\* reads, queries or writes coupons, and its own steps leave the store as
\* it was.
C25_UnknownSiteNoCouponAccess ==
    [][\A p \in Procs :
          UnknownSite(p)'
          => /\ pc'[p] \in SiteLookups \cup {"done"}
             /\ pc'[p] = "done" => ErrorCodeOf(resp'[p]) = "SITE_NOT_FOUND"
             /\ Steps(p) => (coupons' = coupons /\ version' = version)]_vars

\* an applyCoupon and a validateCoupon for site s9, whose coupon c4 is
\* stored and eligible, were both answered SITE_NOT_FOUND, and c4 is unused
C25_Witness ==
    \E p, q \in Procs :
        /\ fn[p] = "applyCoupon" /\ req[p].siteId = "s9" /\ req[p].couponId = "c4"
        /\ pc[p] = "done" /\ ErrorCodeOf(resp[p]) = "SITE_NOT_FOUND"
        /\ fn[q] = "validateCoupon" /\ req[q].siteId = "s9" /\ req[q].code = "a"
        /\ pc[q] = "done" /\ ErrorCodeOf(resp[q]) = "SITE_NOT_FOUND"
        /\ coupons["c4"].siteId = "s9" /\ coupons["c4"].code = "A"
        /\ coupons["c4"].usedCount = 0

\* C26: with the store available and every stored document well-formed,
\* no operation returns INTERNAL_ERROR in any interleaving; an updateCoupon
\* whose coupon a concurrent deleteCoupon removes reports COUPON_NOT_FOUND
\* or succeeds.
C26_NoInternalError ==
    \A p \in Procs : pc[p] = "done" => ErrorCodeOf(resp[p]) # "INTERNAL_ERROR"

\* slot p's request gets its answer in this step
Answered(p) == pc[p] # "done" /\ pc'[p] = "done"

\* slot p's request is answered with error code in this step
AnswersWith(p, code) ==
    pc[p] # "done" /\ pc'[p] = "done" /\ ErrorCodeOf(resp'[p]) = code

\* C27: createCoupon asks for the plan-limit verdict right after the site
\* is resolved, before it looks for the code; the verdict either ends the
\* request with COUPON_LIMIT_REACHED, nothing inserted, or lets it go on
\* to the uniqueness check, so DUPLICATE_CODE is only answered after the
\* limit allowed the create; no other operation is ever at the limit
\* check or answers COUPON_LIMIT_REACHED.
C27_LimitBeforeUniqueness ==
    [][\A p \in Procs :
          /\ (pc[p] = "cre_site" /\ Steps(p))
             => \/ pc'[p] = "cre_limit"
                \/ AnswersWith(p, "SITE_NOT_FOUND")
          /\ (pc[p] = "cre_limit" /\ Steps(p))
             => /\ fn[p] = "createCoupon"
                /\ coupons' = coupons /\ nextId' = nextId
                /\ \/ AnswersWith(p, "COUPON_LIMIT_REACHED")
                   \/ pc'[p] = "cre_query"
          /\ AnswersWith(p, "COUPON_LIMIT_REACHED")
             => fn[p] = "createCoupon" /\ pc[p] = "cre_limit"
          /\ (fn[p] = "createCoupon" /\ AnswersWith(p, "DUPLICATE_CODE"))
             => pc[p] = "cre_query"
          /\ (fn[p] = "createCoupon" /\ pc'[p] = "cre_query" /\ Steps(p))
             => pc[p] = "cre_limit"]_vars

\* a createCoupon of code a for site s1, which holds a coupon A, was
\* answered COUPON_LIMIT_REACHED and nothing was inserted
C27_Witness ==
    \E p \in Procs :
        /\ fn[p] = "createCoupon" /\ req[p].siteId = "s1" /\ req[p].code = "a"
        /\ pc[p] = "done" /\ ErrorCodeOf(resp[p]) = "COUPON_LIMIT_REACHED"
        /\ coupons["c1"].siteId = "s1" /\ coupons["c1"].code = "A"
        /\ DOMAIN coupons = {"c1", "c2", "c3", "c4"}

\* C35: getCoupons for an existing site answers, never with an error, the
\* list of the coupons stored at the moment of its query whose siteId is
\* the requested one: every listed coupon is of that site and is listed
\* with its document id and its stored fields, no stored coupon of the
\* site is left out, and the list is empty when the site has none.
C35_GetCouponsExactlyOfSite ==
    [][\A p \in Procs :
          (fn[p] = "getCoupons" /\ Answered(p) /\ req[p].siteId \in DOMAIN Sites)
          => /\ IsOk(resp'[p])
             /\ \A id \in DOMAIN coupons :
                   coupons[id].siteId = req[p].siteId <=> id \in DOMAIN resp'[p].data
             /\ \A id \in DOMAIN resp'[p].data :
                   /\ id \in DOMAIN coupons
                   /\ resp'[p].data[id].id = id
                   /\ resp'[p].data[id].siteId = req[p].siteId
                   /\ \A k \in DOMAIN coupons[id] :
                         resp'[p].data[id][k] = coupons[id][k]]_vars

\* getCoupons of site s1 was answered with an empty list after the site's
\* only coupon was deleted, the coupons of the other sites being stored
C35_Witness ==
    \E p \in Procs :
        /\ fn[p] = "getCoupons" /\ req[p].siteId = "s1"
        /\ pc[p] = "done" /\ IsOk(resp[p]) /\ DOMAIN resp[p].data = {}
        /\ DOMAIN coupons = {"c2", "c3", "c4"}

\* the operations that write the store
WritingOperations == {"createCoupon", "updateCoupon", "deleteCoupon", "applyCoupon"}

\* the error codes other than INTERNAL_ERROR
DomainErrors == ErrorCode \ {"INTERNAL_ERROR"}

\* the store holds the documents it started with, none of them written
StoreAsStarted ==
    /\ coupons \in ErrorsSeeds
    /\ \A id \in DOMAIN coupons :
          version[id] = 0 /\ coupons[id].usedCount = used0[id]
    /\ nextId = Cardinality(DOMAIN coupons)

\* C36: a createCoupon, updateCoupon, deleteCoupon or applyCoupon request
\* answered with an error code other than INTERNAL_ERROR has written
\* nothing. While every request started so far has been answered so, the
\* store holds the coupons it started with, every field as it was; and in
\* any interleaving a step of a request changes the store only when it
\* answers with a success or is the write of an updateCoupon, after which
\* that request is answered with a success or with INTERNAL_ERROR.
C36_DomainErrorWritesNothing ==
    /\ []((\A p \in Procs :
              pc[p] # "idle"
              => /\ pc[p] = "done"
                 /\ fn[p] \in WritingOperations
                 /\ ErrorCodeOf(resp[p]) \in DomainErrors)
          => StoreAsStarted)
    /\ [][\A p \in Procs :
            /\ (Steps(p) /\ <<coupons, version, nextId>>' # <<coupons, version, nextId>>)
               => \/ pc'[p] = "done" /\ IsOk(resp'[p])
                  \/ pc[p] = "upd_write" /\ pc'[p] = "upd_reread"
            /\ (pc[p] = "upd_reread" /\ Answered(p))
               => IsOk(resp'[p]) \/ ErrorCodeOf(resp'[p]) = "INTERNAL_ERROR"
            /\ (Answered(p) /\ ErrorCodeOf(resp'[p]) \in DomainErrors)
               => <<coupons, version, nextId>>' = <<coupons, version, nextId>>]_vars

\* an applyCoupon on the used-up coupon c1 was answered COUPON_MAX_USES and
\* an updateCoupon of c1 INVALID_INPUT after reading it, and c1 is stored
\* with the usedCount and the updatedAt it started with
C36_Witness ==
    \E p, q \in Procs :
        /\ fn[p] = "applyCoupon" /\ req[p].couponId = "c1"
        /\ pc[p] = "done" /\ ErrorCodeOf(resp[p]) = "COUPON_MAX_USES"
        /\ fn[q] = "updateCoupon" /\ req[q].couponId = "c1" /\ SchemaHolds(q)
        /\ pc[q] = "done" /\ ErrorCodeOf(resp[q]) = "INVALID_INPUT"
        /\ coupons["c1"].usedCount = 1 /\ coupons["c1"].updatedAt = 0
        /\ version["c1"] = 0

----------------------------------------------------------------------------
(* SpecRound: createCoupon and getCoupons requests, one at a time, the     *)
(* answers kept                                                            *)

\* every earlier request has been answered
Settled == \A q \in Procs : pc[q] \in {"idle", "done"}

\* creates with and without the optional limits, one of them carrying keys
\* of the stored document that the schema does not declare
RoundCreateInputs ==
    [siteId : {"s1", "s2"}, code : {"a", "b"}, discountType : {"percentage"},
     discountValue : {Num(50)}, validFrom : {1}, validUntil : {3}]
    \cup [siteId : {"s1"}, code : {"b"}, discountType : {"fixed"},
          discountValue : {Num(150)}, minPurchase : {Num(200)}, maxUses : {1, 5},
          validFrom : {1}, validUntil : {3}]
    \cup [siteId : {"s1"}, code : {"C"}, discountType : {"fixed"},
          discountValue : {Num(150)}, maxUses : {1}, validFrom : {0}, validUntil : {2},
          usedCount : {3}, isActive : {FALSE}, userId : {"u2"}]

RoundGetInputs == [siteId : {"s1", "s2"}]

NextRound ==
    \/ \E p \in Procs, d \in RoundCreateInputs :
          nreq < MaxRequests /\ Settled /\ StartCreate(p, d)
    \/ \E p \in Procs, d \in RoundGetInputs :
          nreq < MaxRequests /\ Settled /\ StartGet(p, d)
    \/ CreateSteps
    \/ GetSteps
    \/ Tick

SpecRound == Init /\ [][NextRound]_vars

\* the value createCoupon stores for an optional limit of the request d
LimitOf(d, k) == IF Has(d, k) THEN d[k] ELSE Null

\* C28: the insert of a createCoupon stores, under a new id, the request's
\* siteId, discountType, discountValue, validFrom and validUntil, the code
\* uppercased, the userId of the site document, usedCount 0, isActive
\* true, null for an absent minPurchase or maxUses, and createdAt =
\* updatedAt, and answers with that record and its id; a getCoupons of the
\* same site that follows lists a record equal to the one create returned.
C28_CreateGetRoundTrip ==
    [][\A p \in Procs :
          /\ (pc[p] = "cre_add" /\ Steps(p))
             => \E id \in DOMAIN coupons' \ DOMAIN coupons :
                   LET doc == coupons'[id] IN
                     /\ DOMAIN coupons' = DOMAIN coupons \cup {id}
                     /\ \A k \in {"siteId", "discountType", "discountValue",
                                   "validFrom", "validUntil"} : doc[k] = req[p][k]
                     /\ doc.code = toUpperCase(req[p].code)
                     /\ doc.userId = Sites[req[p].siteId]
                     /\ doc.usedCount = 0 /\ doc.isActive = TRUE
                     /\ \A k \in {"minPurchase", "maxUses"} :
                           Has(doc, k) /\ doc[k] = LimitOf(req[p], k)
                     /\ doc.createdAt = doc.updatedAt
                     /\ IsOk(resp'[p])
                     /\ DOMAIN resp'[p].data = DOMAIN doc \cup {"id"}
                     /\ resp'[p].data.id = id
                     /\ \A k \in DOMAIN doc : resp'[p].data[k] = doc[k]
          /\ (pc[p] = "get_query" /\ Steps(p))
             => /\ IsOk(resp'[p])
                /\ \A q \in Procs :
                      (/\ fn[q] = "createCoupon" /\ pc[q] = "done" /\ IsOk(resp[q])
                       /\ req[q].siteId = req[p].siteId)
                      => \E i \in DOMAIN resp'[p].data :
                            resp'[p].data[i] = resp[q].data]_vars

\* a create of code b without limits, made for site s1 at instant 1, was
\* answered with coupon c3, and the getCoupons of s1 that followed listed
\* the seeded coupon and that same record
C28_Witness ==
    \E p, q \in Procs :
        /\ fn[p] = "createCoupon" /\ pc[p] = "done" /\ IsOk(resp[p])
        /\ req[p].code = "b" /\ ~Has(req[p], "minPurchase") /\ ~Has(req[p], "maxUses")
        /\ resp[p].data.id = "c3" /\ resp[p].data.code = "B"
        /\ resp[p].data.minPurchase = Null /\ resp[p].data.maxUses = Null
        /\ resp[p].data.createdAt = 1 /\ resp[p].data.updatedAt = 1
        /\ fn[q] = "getCoupons" /\ pc[q] = "done" /\ IsOk(resp[q])
        /\ DOMAIN resp[q].data = {"c1", "c3"}
        /\ resp[q].data["c3"] = resp[p].data

----------------------------------------------------------------------------
(* SpecCode: createCoupon, updateCoupon and validateCoupon requests whose  *)
(* codes differ in letter case                                             *)

CodeCreateInputs ==
    [siteId : {"s1"}, code : {"a", "A", "b"}, discountType : {"percentage"},
     discountValue : {Num(50)}, validFrom : {0}, validUntil : {3}]

CodeUpdateInputs ==
    [siteId : {"s1"}, couponId : {"c1"}, code : {"a", "A", "b", "B"}]
    \cup [siteId : {"s2"}, couponId : {"c2"}, code : {"a", "b"}]

CodeValidateInputs ==
    [siteId : {"s1"}, code : {"a", "A", "b", "B"}, cartTotal : {Num(100)}]

NextCode ==
    \/ \E p \in Procs, d \in CodeCreateInputs : nreq < MaxRequests /\ StartCreate(p, d)
    \/ \E p \in Procs, d \in CodeUpdateInputs : nreq < MaxRequests /\ StartUpdate(p, d)
    \/ \E p \in Procs, d \in CodeValidateInputs :
          nreq < MaxRequests /\ StartValidate(p, d)
    \/ CreateSteps
    \/ UpdateSteps
    \/ ValidateSteps

SpecCode == Init /\ [][NextCode]_vars

\* the stored coupons of the request's site whose code is the request's
\* code uppercased
SameCode(p) ==
    {id \in DOMAIN coupons :
        coupons[id].siteId = req[p].siteId /\ coupons[id].code = toUpperCase(req[p].code)}

\* C29: every stored code is in uppercase form, and the lookups compare
\* the uppercased request code: validateCoupon answers COUPON_NOT_FOUND
\* exactly when no coupon of the site has it and otherwise judges one that
\* has; the create pre-check answers DUPLICATE_CODE exactly when one has
\* it; an update takes a code whose uppercase form is the stored code as no
\* change, and its pre-check answers DUPLICATE_CODE exactly when one has
\* it.
C29_CodesUppercased ==
    /\ [](\A id \in DOMAIN coupons : coupons[id].code = toUpperCase(coupons[id].code))
    /\ [][\A p \in Procs :
             /\ (pc[p] = "val_query" /\ Steps(p))
                => /\ AnswersWith(p, "COUPON_NOT_FOUND") <=> SameCode(p) = {}
                   /\ IsOk(resp'[p])
                      => /\ resp'[p].data.couponId \in SameCode(p)
                         /\ resp'[p].data.code = toUpperCase(req[p].code)
             /\ (pc[p] = "cre_query" /\ Steps(p))
                => (AnswersWith(p, "DUPLICATE_CODE") <=> SameCode(p) # {})
             /\ (/\ pc[p] = "upd_read" /\ Steps(p) /\ Has(req[p], "code")
                 /\ req[p].couponId \in DOMAIN coupons
                 /\ coupons[req[p].couponId].siteId = req[p].siteId)
                => (pc'[p] = "upd_query" <=> req[p].couponId \notin SameCode(p))
             /\ (pc[p] = "upd_query" /\ Steps(p))
                => (AnswersWith(p, "DUPLICATE_CODE") <=> SameCode(p) # {})]_vars

\* an update of coupon c1 to code b stored B, and a validation of code b
\* then judged c1
C29_Witness ==
    \E p, q \in Procs :
        /\ fn[p] = "updateCoupon" /\ pc[p] = "done" /\ IsOk(resp[p])
        /\ req[p].couponId = "c1" /\ req[p].code = "b"
        /\ coupons["c1"].code = "B"
        /\ fn[q] = "validateCoupon" /\ pc[q] = "done" /\ IsOk(resp[q])
        /\ req[q].code = "b"
        /\ resp[q].data.couponId = "c1" /\ resp[q].data.code = "B"

----------------------------------------------------------------------------
(* SpecSchema: updateCouponSchema on update requests with any subset of    *)
(* the type, the value, the two dates and the two limits                   *)

\* the requests ds, and each of them with key added at one of values
WithOptional(ds, key, values) ==
    ds \cup {Merge(d, key :> v) : d \in ds, v \in values}

SchemaUpdateInputs ==
    WithOptional(
        WithOptional(
            WithOptional(
                WithOptional(
                    WithOptional(
                        WithOptional([siteId : {"s1"}, couponId : {"c1"}],
                                     "discountType", DISCOUNT_TYPES),
                        "discountValue", {Num(100), Num(100) + 1, Num(150)}),
                    "validFrom", {1, 2}),
                "validUntil", {1, 2}),
            "minPurchase", {Null, Num(20)}),
        "maxUses", {Null, 1})

\* const parsed = updateCouponSchema.safeParse(request.data)
ParseUpdate(d) ==
    /\ fn' = [fn EXCEPT ![1] = "updateCouponSchema"]
    /\ req' = [req EXCEPT ![1] = d]
    /\ loc' = [loc EXCEPT ![1] =
                 [success |-> updateCouponSchema(d),
                  data |-> ParsedData(d, updateCouponKeys)]]
    /\ pc' = [pc EXCEPT ![1] = "done"]
    /\ UNCHANGED <<coupons, version, nextId, resp, now, nreq, used0>>

NextSchema == \E d \in SchemaUpdateInputs : ParseUpdate(d)

SpecSchema == Init /\ [][NextSchema]_vars

\* updateCouponSchema has answered
Parsed == fn[1] = "updateCouponSchema" /\ pc[1] = "done"

\* C30: the update schema rejects a request exactly when it carries both
\* discountType = percentage and a discountValue above 100, or both dates
\* with validFrom not strictly earlier than validUntil; so it accepts a
\* request with only discountType = percentage, only a discountValue
\* above 100 or only one of the dates, and null for minPurchase and
\* maxUses.
C30_RefinementNeedsBothHalves ==
    Parsed =>
        LET d == req[1] IN
            ~loc[1].success
            <=> \/ /\ Has(d, "discountType") /\ Has(d, "discountValue")
                   /\ d.discountType = "percentage" /\ d.discountValue > Num(100)
                \/ /\ Has(d, "validFrom") /\ Has(d, "validUntil")
                   /\ ~(d.validFrom < d.validUntil)

\* a request with a discountValue of 150 and no type, a validFrom and no
\* validUntil, and null for both limits was accepted
C30_Witness ==
    /\ Parsed
    /\ DOMAIN req[1] =
          {"siteId", "couponId", "discountValue", "validFrom", "minPurchase", "maxUses"}
    /\ req[1].discountValue = Num(150) /\ req[1].validFrom = 2
    /\ req[1].minPurchase = Null /\ req[1].maxUses = Null
    /\ loc[1].success

----------------------------------------------------------------------------
(* SpecPrecedence: applyCoupon requests of a site and of an unknown site   *)
(* on the site's coupon, on a coupon of another site and on a missing id   *)

\* a coupon that is eligible, inactive, expired or used up
PrecedenceCoupons(site, code) ==
    {Doc(site, code, "fixed", Num(50), Null, Null, 0, 0, 3, TRUE),
     Doc(site, code, "fixed", Num(50), Null, Null, 0, 0, 3, FALSE),
     Doc(site, code, "fixed", Num(50), Null, Null, 0, 0, 0, TRUE),
     Doc(site, code, "fixed", Num(50), Null, 1, 1, 0, 3, TRUE)}

InitPrecedence ==
    \E c1 \in PrecedenceCoupons("s1", "A"), c2 \in PrecedenceCoupons("s2", "B") :
        InitWith([c1 |-> c1, c2 |-> c2])

PrecedenceApplyInputs ==
    [siteId : {"s1", "s9"}, couponId : {"c1", "c2", "c9"}, orderId : {"o1"},
     cartTotal : {Num(100)}]

NextPrecedence ==
    \/ \E p \in Procs, d \in PrecedenceApplyInputs :
          nreq < MaxRequests /\ StartApply(p, d)
    \/ ApplySteps
    \/ Tick

SpecPrecedence == InitPrecedence /\ [][NextPrecedence]_vars

\* the eligibility codes
EligibilityCodes ==
    {"COUPON_INACTIVE", "COUPON_NOT_YET_VALID", "COUPON_EXPIRED",
     "COUPON_MAX_USES", "MIN_PURCHASE_NOT_MET"}

\* C31: an applyCoupon for an unknown site is answered SITE_NOT_FOUND
\* whatever coupon it names; for an existing site, a missing coupon id is
\* answered COUPON_NOT_FOUND and a stored coupon of another site FORBIDDEN,
\* also when that coupon is inactive, expired or used up; an eligibility
\* code is only answered for a stored coupon of the request's own site.
C31_ApplyErrorPrecedence ==
    [][\A p \in Procs :
          (fn[p] = "applyCoupon" /\ pc[p] # "done" /\ pc'[p] = "done")
          => LET d == req[p]
                 code == ErrorCodeOf(resp'[p])
             IN  /\ d.siteId \notin DOMAIN Sites => code = "SITE_NOT_FOUND"
                 /\ (d.siteId \in DOMAIN Sites /\ d.couponId \notin DOMAIN coupons)
                    => code = "COUPON_NOT_FOUND"
                 /\ (/\ d.siteId \in DOMAIN Sites
                     /\ d.couponId \in DOMAIN coupons
                     /\ coupons[d.couponId].siteId # d.siteId)
                    => code = "FORBIDDEN"
                 /\ code \in EligibilityCodes
                    => /\ d.siteId \in DOMAIN Sites
                       /\ d.couponId \in DOMAIN coupons
                       /\ coupons[d.couponId].siteId = d.siteId]_vars

\* an applyCoupon of site s1 on the inactive coupon of site s2 was answered
\* FORBIDDEN and one on a missing id COUPON_NOT_FOUND
C31_Witness ==
    \E p, q \in Procs :
        /\ fn[p] = "applyCoupon" /\ req[p].siteId = "s1" /\ req[p].couponId = "c2"
        /\ ~coupons["c2"].isActive /\ coupons["c2"].siteId = "s2"
        /\ pc[p] = "done" /\ ErrorCodeOf(resp[p]) = "FORBIDDEN"
        /\ fn[q] = "applyCoupon" /\ req[q].siteId = "s1" /\ req[q].couponId = "c9"
        /\ pc[q] = "done" /\ ErrorCodeOf(resp[q]) = "COUPON_NOT_FOUND"

----------------------------------------------------------------------------
(* SpecOrder: updateCoupon requests, one at a time, that fail several of   *)
(* the handler's checks at once                                            *)

\* two coupons of s1 and one of s2, each with a code of its own
OrderSeeds ==
    [c1 |-> Doc("s1", "A", "percentage", Num(50), Null, Null, 0, 1, 2, TRUE),
     c2 |-> Doc("s1", "B", "fixed", Num(5000), Null, Null, 0, 1, 2, TRUE),
     c3 |-> Doc("s2", "C", "percentage", Num(50), Null, Null, 0, 1, 2, TRUE)]

InitOrder == InitWith(OrderSeeds)

\* for the coupon of the site, a coupon of another site, a missing coupon
\* and an unknown site: a code of the site with a value or a date that the
\* merged coupon cannot take, a free code with such a value, and a free
\* code, the coupon's own code, a code of the other site and a code of the
\* site alone
OrderUpdateInputs ==
    WithFields([siteId : {"s1"}, couponId : {"c1", "c3", "c9"}]
                   \cup [siteId : {"s9"}, couponId : {"c9"}],
               [code : {"b", "d"}, discountValue : {Num(150)}]
                   \cup [code : {"b"}, validFrom : {2}]
                   \cup [code : {"a", "b", "c", "d"}])

NextOrder ==
    \/ \E p \in Procs, d \in OrderUpdateInputs :
          nreq < MaxUpdates /\ Quiet /\ StartUpdate(p, d)
    \/ UpdateSteps
    \/ Returns

SpecOrder == InitOrder /\ [][NextOrder]_vars

\* another coupon of the request's site has the request's code, upper-cased,
\* and it is not the stored code of the coupon addressed
CodeTaken(d, store) ==
    /\ Has(d, "code")
    /\ toUpperCase(d.code) # store[d.couponId].code
    /\ \E j \in DOMAIN store \ {d.couponId} :
          store[j].siteId = d.siteId /\ store[j].code = toUpperCase(d.code)

\* the error of the first check of updateCoupon that request d fails on
\* store, "none" when it passes all of them
UpdateFirstFailure(d, store) ==
    IF d.siteId \notin DOMAIN Sites THEN "SITE_NOT_FOUND"
    ELSE IF d.couponId \notin DOMAIN store THEN "COUPON_NOT_FOUND"
    ELSE IF store[d.couponId].siteId # d.siteId THEN "FORBIDDEN"
    ELSE IF CodeTaken(d, store) THEN "DUPLICATE_CODE"
    ELSE IF MergedInvalid(d, store[d.couponId]) THEN "INVALID_INPUT"
    ELSE "none"

\* C32: an updateCoupon that passed its schema is answered with the error
\* of the first check it fails in the order site, coupon, owner, code
\* uniqueness, merged cross-field validation: a request that takes a code of
\* the site and gives an invalid merged percentage or date range is
\* answered DUPLICATE_CODE; the store changes only in the write of a request
\* that fails none of the checks.
C32_UpdateCheckOrder ==
    [][\A p \in Procs :
          fn[p] = "updateCoupon"
          => /\ (pc[p] \in {"upd_site", "upd_read", "upd_query"} /\ pc'[p] = "done")
                => /\ ErrorCodeOf(resp'[p]) = UpdateFirstFailure(req[p], coupons)
                   /\ ~IsOk(resp'[p])
             /\ (Steps(p) /\ (coupons' # coupons \/ version' # version))
                => /\ pc[p] = "upd_write"
                   /\ UpdateFirstFailure(req[p], coupons) = "none"]_vars

\* an update of c1 to the code of c2 with a discountValue of 150 was
\* answered DUPLICATE_CODE, and c1 is stored as it was
C32_Witness ==
    \E p \in Procs :
        /\ fn[p] = "updateCoupon" /\ pc[p] = "done"
        /\ req[p].siteId = "s1" /\ req[p].couponId = "c1"
        /\ req[p].code = "b" /\ Has(req[p], "discountValue")
        /\ req[p].discountValue = Num(150)
        /\ ErrorCodeOf(resp[p]) = "DUPLICATE_CODE"
        /\ coupons["c2"].code = "B" /\ coupons["c2"].siteId = "s1"
        /\ coupons["c1"].discountType = "percentage"
        /\ coupons["c1"].code = "A" /\ version["c1"] = 0

----------------------------------------------------------------------------
(* SpecDelete: the six operations of Spec, executed one at a time          *)

NextDelete ==
    \/ \E p \in Procs, d \in CreateInputs :
          nreq < MaxRequests /\ Quiet /\ StartCreate(p, d)
    \/ \E p \in Procs, d \in GetInputs :
          nreq < MaxRequests /\ Quiet /\ StartGet(p, d)
    \/ \E p \in Procs, d \in UpdateInputs :
          nreq < MaxRequests /\ Quiet /\ StartUpdate(p, d)
    \/ \E p \in Procs, d \in DeleteInputs :
          nreq < MaxRequests /\ Quiet /\ StartDelete(p, d)
    \/ \E p \in Procs, d \in ValidateInputs :
          nreq < MaxRequests /\ Quiet /\ StartValidate(p, d)
    \/ \E p \in Procs, d \in AllApplyInputs :
          nreq < MaxRequests /\ Quiet /\ StartApply(p, d)
    \/ CreateSteps
    \/ GetSteps
    \/ UpdateSteps
    \/ DeleteSteps
    \/ ValidateSteps
    \/ ApplySteps
    \/ Returns

SpecDelete == Init /\ [][NextDelete]_vars

\* the coupons the store started with that a deleteCoupon has removed
Gone == {"c1", "c2"} \ DOMAIN coupons

\* C34: the step in which a deleteCoupon succeeds removes the addressed
\* coupon and leaves every other coupon as it was; once a coupon is
\* removed, getCoupons of its site does not list it, applyCoupon,
\* updateCoupon and deleteCoupon of an existing site on its id are answered
\* COUPON_NOT_FOUND, validateCoupon is answered COUPON_NOT_FOUND for a code
\* that no stored coupon of the site has, and createCoupon is answered
\* DUPLICATE_CODE only for a code that a stored coupon of the site has.
C34_DeleteRemovesExactly ==
    [][\A p \in Procs :
          /\ (fn[p] = "deleteCoupon" /\ Answered(p) /\ IsOk(resp'[p]))
             => /\ req[p].couponId \in DOMAIN coupons
                /\ resp'[p].data = [id |-> req[p].couponId]
                /\ DOMAIN coupons' = DOMAIN coupons \ {req[p].couponId}
                /\ \A id \in DOMAIN coupons' : coupons'[id] = coupons[id]
          /\ (fn[p] = "getCoupons" /\ Answered(p) /\ IsOk(resp'[p]))
             => \A id \in Gone : id \notin DOMAIN resp'[p].data
          /\ (/\ fn[p] \in {"applyCoupon", "updateCoupon", "deleteCoupon"}
              /\ Answered(p)
              /\ req[p].siteId \in DOMAIN Sites
              /\ req[p].couponId \in Gone)
             => ErrorCodeOf(resp'[p]) = "COUPON_NOT_FOUND"
          /\ (/\ fn[p] = "validateCoupon" /\ Answered(p)
              /\ req[p].siteId \in DOMAIN Sites
              /\ couponByCodeQuery(coupons, req[p].siteId, toUpperCase(req[p].code)) = {})
             => ErrorCodeOf(resp'[p]) = "COUPON_NOT_FOUND"
          /\ (fn[p] = "createCoupon" /\ AnswersWith(p, "DUPLICATE_CODE"))
             => couponByCodeQuery(coupons, req[p].siteId, toUpperCase(req[p].code)) # {}
       ]_vars

\* coupon c1 of site s1, whose code was A, is removed, and a createCoupon
\* of site s1 with code a has stored a new coupon with that code
C34_Witness ==
    \E p \in Procs :
        /\ "c1" \in Gone
        /\ fn[p] = "createCoupon" /\ pc[p] = "done" /\ IsOk(resp[p])
        /\ req[p].siteId = "s1" /\ req[p].code = "a"
        /\ resp[p].data.id \in DOMAIN coupons
        /\ coupons[resp[p].data.id].code = "A"
        /\ coupons[resp[p].data.id].siteId = "s1"
        /\ \A id \in DOMAIN coupons : coupons[id].code = "A" => id = resp[p].data.id

----------------------------------------------------------------------------
(* SpecRace: applyCoupon requests on a coupon while updateCoupon requests  *)
(* switch it off and on and a deleteCoupon removes it                      *)

\* the coupon switched off, switched on, given another code
RaceUpdateInputs ==
    [siteId : {"s1"}, couponId : {"c1"}, isActive : BOOLEAN]
    \cup [siteId : {"s1"}, couponId : {"c1"}, code : {"b"}]

RaceDeleteInputs == [siteId : {"s1"}, couponId : {"c1"}]

NextRace ==
    \/ \E p \in Procs, d \in UseApplyInputs : nreq < MaxUseRequests /\ StartApply(p, d)
    \/ \E p \in Procs, d \in RaceUpdateInputs : nreq < MaxUseRequests /\ StartUpdate(p, d)
    \/ \E p \in Procs, d \in RaceDeleteInputs : nreq < MaxUseRequests /\ StartDelete(p, d)
    \/ ApplySteps
    \/ UpdateSteps
    \/ DeleteSteps

SpecRace == Init /\ [][NextRace]_vars

\* the step stores the increment of the applyCoupon of slot p
Commits(p) == fn[p] = "applyCoupon" /\ pc[p] = "app_commit" /\ pc'[p] = "done"

\* C38: in any interleaving with updateCoupon and deleteCoupon on the same
\* coupon, an applyCoupon stores its increment only when the coupon is
\* stored as its transaction read it: present, not written since, active,
\* with the usedCount the result counts from; every other commit attempt
\* leaves the store as it is and runs the transaction function again (or
\* gives up with INTERNAL_ERROR after the last attempt), which
\* answers COUPON_NOT_FOUND for a deleted coupon and COUPON_INACTIVE for a
\* coupon switched off, so that no apply succeeds on a coupon that is
\* absent or inactive.
C38_CommitsOnlyWhatItRead ==
    [][\A p \in Procs :
          LET id == req[p].couponId IN
              /\ Commits(p)
                 => /\ id \in DOMAIN coupons
                    /\ version[id] = loc[p].readVersion
                    /\ coupons[id].isActive
                    /\ coupons[id].usedCount + 1 = resp'[p].data.usedCount
                    /\ coupons'[id].usedCount = resp'[p].data.usedCount
                    /\ coupons'[id].isActive
              /\ (fn[p] = "applyCoupon" /\ pc[p] = "app_commit" /\ ~Commits(p) /\ Steps(p))
                 => /\ id \notin DOMAIN coupons \/ version[id] # loc[p].readVersion
                    /\ pc'[p] = "app_tx" \/ AnswersWith(p, "INTERNAL_ERROR")
                    /\ coupons' = coupons /\ version' = version
              /\ (fn[p] = "applyCoupon" /\ pc[p] = "app_tx" /\ Steps(p))
                 => /\ id \notin DOMAIN coupons
                       => ErrorCodeOf(resp'[p]) = "COUPON_NOT_FOUND"
                    /\ (id \in DOMAIN coupons /\ ~coupons[id].isActive)
                       => ErrorCodeOf(resp'[p]) = "COUPON_INACTIVE"
              /\ (fn[p] = "applyCoupon" /\ Answered(p) /\ IsOk(resp'[p]))
                 => Commits(p)]_vars

\* an applyCoupon that read the active coupon is about to commit, while an
\* updateCoupon that started after it has switched the coupon off
C38_Witness ==
    \E p, q \in Procs :
        /\ fn[p] = "applyCoupon" /\ pc[p] = "app_commit"
        /\ "c1" \in DOMAIN coupons
        /\ loc[p].readVersion = 0 /\ version["c1"] = 1
        /\ fn[q] = "updateCoupon" /\ pc[q] = "done" /\ IsOk(resp[q])
        /\ Has(req[q], "isActive") /\ ~req[q].isActive /\ ~coupons["c1"].isActive
        /\ coupons["c1"].usedCount = used0["c1"]

----------------------------------------------------------------------------
(* SpecLive: applyCoupon requests on one unlimited coupon, each handler    *)
(* scheduled fairly                                                        *)

InitLive ==
    InitWith([c1 |-> Doc("s1", "A", "fixed", Num(50), Null, Null, 0, 0, 3, TRUE)])

\* an apply arrives while at most one other is being handled and every
\* answer given so far has been taken
NextLive ==
    \/ \E p \in Procs, d \in UseApplyInputs :
          /\ nreq < MaxLiveApplies
          /\ Cardinality(InFlight) <= 1
          /\ \A q \in Procs : pc[q] # "done"
          /\ StartApply(p, d)
    \/ ApplySteps
    \/ Returns

\* a handler that can take its next step eventually takes it
SpecLive ==
    /\ InitLive
    /\ [][NextLive]_vars
    /\ \A p \in Procs :
          WF_vars(AppSite(p)) /\ WF_vars(AppTxRun(p)) /\ WF_vars(AppCommit(p))

============================================================================
